---- MODULE Spec2Model ----
(***************************************************************************)
(* Model of the FTDI MPSSE bit-banged I2C engine (ftd2xx_iface.py) and of  *)
(* the smbus2 backend (smbus2_iface.py) of max1730x_logger.                *)
(*                                                                         *)
(* Every transport write (self.__dev.write) and every transport read       *)
(* (self.__dev.read) of a logical read is one step.  The bridge chip is    *)
(* modelled by an interpreter of the command bytes the engine writes: it   *)
(* keeps the pin state, decodes the commands, recognises the I2C START and *)
(* STOP conditions from the pin levels, lets the addressed slave answer,   *)
(* and queues the response bytes that the engine reads back.               *)
(***************************************************************************)
EXTENDS Integers, Sequences, FiniteSets, TLC

(***************************************************************************)
(* Bounds of the model.                                                    *)
(***************************************************************************)
\* i2c_read_words is called with num_words in 1..MaxWords
MaxWords == 16
\* sbs_block_read is called with num_bytes in 0..MaxBytes
MaxBytes == 6
\* number of logical calls made one after the other on the instance
MaxCalls == 2
\* number of transport reads that may return short in SpecShort
MaxShort == 1
\* num_words and num_bytes of the calls made in SpecShort
ShortWords == 3
ShortBytes == 2
\* bytes queued in the chip when the device is opened
MaxStale == 3
\* logical reads on a freshly constructed instance, and their sizes
CtorCalls == 1
CtorWords == 1
CtorBytes == 1
\* turns of the collection loop of start_logging
MaxAttempts == 3

(***************************************************************************)
(* Command vocabulary, ftd2xx_iface.py lines 20-36.                        *)
(***************************************************************************)
CMD_SET_DATABITS_LOW == 128
CMD_DATAOUT_NEG_EDGE == 19
CMD_DATAIN_POS_EDGE == 34
CMD_SEND_IMMEDIATE == 135
CMD_CLKDIV_DISABLE == 139
CMD_SET_CLOCK == 134
DATASIZE_1BIT == 0
DATASIZE_8BITS == 7
DATA_SEND_NACK == 128
DATA_SEND_ACK == 0
VAL_SCLHI_SDAHI == 3
VAL_SCLHI_SDALO == 1
VAL_SCLLO_SDALO == 0
VAL_SCLLO_SDAHI == 2
DIR_SCLOUT_SDAOUT == 19
DIR_SCLIN_SDAIN == 16
DIR_SCLOUT_SDAIN == 17
START_DUR_1 == 10
START_DUR_2 == 20
STOP_DUR_1 == 10
STOP_DUR_2 == 10
STOP_DUR_3 == 10

Byte == 0..255

\* __init__: setLatencyTimer(8), setBitMode(0, 0), setBitMode(0, 2)
LATENCY_TIMER == 8
MODE_RESET == 0
MODE_MPSSE == 2
\* __init__: the numbers of  div = int((6000000 / (40000 * 2)) - 1)
MASTER_CLOCK == 6000000
CLOCK_RATE == 40000

\* variant of ClockDivisor: the "- 1" forgotten
ClockDivisor_plain(master, rate) == master \div (rate * 2)

\* div of __init__: int() of a quotient that is at least 1 truncates it
ClockDivisor(master, rate) == (master \div (rate * 2)) - 1

\* variant of SetClockCmd: the high byte sent first
SetClockCmd_hifirst(div) == <<CMD_SET_CLOCK, div \div 256, div % 256>>

\* __init__: [CMD_SET_CLOCK, div % 256, div // 256]
SetClockCmd(div) == <<CMD_SET_CLOCK, div % 256, div \div 256>>

(***************************************************************************)
(* Integer helpers: Python's & and | on non-negative integers, and list    *)
(* repetition ([...] * n).                                                 *)
(***************************************************************************)
RECURSIVE BitAnd(_, _)
BitAnd(a, b) ==
  IF a = 0 \/ b = 0 THEN 0
  ELSE (IF a % 2 = 1 /\ b % 2 = 1 THEN 1 ELSE 0) + 2 * BitAnd(a \div 2, b \div 2)

RECURSIVE BitOr(_, _)
BitOr(a, b) ==
  IF a = 0 THEN b
  ELSE IF b = 0 THEN a
  ELSE (IF a % 2 = 1 \/ b % 2 = 1 THEN 1 ELSE 0) + 2 * BitOr(a \div 2, b \div 2)

\* variant of ShiftRight1: the 8-bit address passed on unshifted
ShiftRight1_none(a) == a

\* bus_addr >> 1
ShiftRight1(a) == a \div 2

RECURSIVE Rep(_, _)
Rep(s, n) == IF n <= 0 THEN <<>> ELSE s \o Rep(s, n - 1)

(***************************************************************************)
(* Command streams built by the engine.                                    *)
(***************************************************************************)
\* variant of StartCmd: the data line dropped before the idle dwell
StartCmd_swapped ==
  Rep(<<CMD_SET_DATABITS_LOW, VAL_SCLHI_SDALO, DIR_SCLOUT_SDAOUT>>, START_DUR_2)
  \o Rep(<<CMD_SET_DATABITS_LOW, VAL_SCLHI_SDAHI, DIR_SCLOUT_SDAOUT>>, START_DUR_1)
  \o <<CMD_SET_DATABITS_LOW, VAL_SCLLO_SDALO, DIR_SCLOUT_SDAOUT>>

\* __ft_i2c_start: cmd_data
StartCmd ==
  Rep(<<CMD_SET_DATABITS_LOW, VAL_SCLHI_SDAHI, DIR_SCLOUT_SDAOUT>>, START_DUR_1)
  \o Rep(<<CMD_SET_DATABITS_LOW, VAL_SCLHI_SDALO, DIR_SCLOUT_SDAOUT>>, START_DUR_2)
  \o <<CMD_SET_DATABITS_LOW, VAL_SCLLO_SDALO, DIR_SCLOUT_SDAOUT>>

\* variant of StopCmd: only the data line released at the end, the clock
\* still driven high
StopCmd_sdarelease ==
  Rep(<<CMD_SET_DATABITS_LOW, VAL_SCLLO_SDALO, DIR_SCLOUT_SDAOUT>>, STOP_DUR_1)
  \o Rep(<<CMD_SET_DATABITS_LOW, VAL_SCLHI_SDALO, DIR_SCLOUT_SDAOUT>>, STOP_DUR_2)
  \o Rep(<<CMD_SET_DATABITS_LOW, VAL_SCLHI_SDAHI, DIR_SCLOUT_SDAOUT>>, STOP_DUR_3)
  \o <<CMD_SET_DATABITS_LOW, VAL_SCLHI_SDAHI, DIR_SCLOUT_SDAIN>>

\* variant of StopCmd: the bus clock programmed again after every STOP
StopCmd_reclock ==
  Rep(<<CMD_SET_DATABITS_LOW, VAL_SCLLO_SDALO, DIR_SCLOUT_SDAOUT>>, STOP_DUR_1)
  \o Rep(<<CMD_SET_DATABITS_LOW, VAL_SCLHI_SDALO, DIR_SCLOUT_SDAOUT>>, STOP_DUR_2)
  \o Rep(<<CMD_SET_DATABITS_LOW, VAL_SCLHI_SDAHI, DIR_SCLOUT_SDAOUT>>, STOP_DUR_3)
  \o <<CMD_SET_DATABITS_LOW, VAL_SCLHI_SDAHI, DIR_SCLIN_SDAIN>>
  \o SetClockCmd(ClockDivisor_plain(MASTER_CLOCK, CLOCK_RATE))

\* __ft_i2c_stop: cmd_data
StopCmd ==
  Rep(<<CMD_SET_DATABITS_LOW, VAL_SCLLO_SDALO, DIR_SCLOUT_SDAOUT>>, STOP_DUR_1)
  \o Rep(<<CMD_SET_DATABITS_LOW, VAL_SCLHI_SDALO, DIR_SCLOUT_SDAOUT>>, STOP_DUR_2)
  \o Rep(<<CMD_SET_DATABITS_LOW, VAL_SCLHI_SDAHI, DIR_SCLOUT_SDAOUT>>, STOP_DUR_3)
  \o <<CMD_SET_DATABITS_LOW, VAL_SCLHI_SDAHI, DIR_SCLIN_SDAIN>>

\* variant of WriteGetAckCmd: the data line left as output for the ack bit
WriteGetAckCmd_sdaout(data) ==
  <<CMD_SET_DATABITS_LOW, VAL_SCLLO_SDAHI, DIR_SCLOUT_SDAOUT>>
  \o <<CMD_DATAOUT_NEG_EDGE, DATASIZE_8BITS, data>>
  \o <<CMD_SET_DATABITS_LOW, VAL_SCLLO_SDALO, DIR_SCLOUT_SDAOUT>>
  \o <<CMD_DATAIN_POS_EDGE, DATASIZE_1BIT>>
  \o <<CMD_SEND_IMMEDIATE>>

\* __ft_i2c_write_get_ack: cmd_data for the byte `data`
WriteGetAckCmd(data) ==
  <<CMD_SET_DATABITS_LOW, VAL_SCLLO_SDAHI, DIR_SCLOUT_SDAOUT>>
  \o <<CMD_DATAOUT_NEG_EDGE, DATASIZE_8BITS, data>>
  \o <<CMD_SET_DATABITS_LOW, VAL_SCLLO_SDALO, DIR_SCLOUT_SDAIN>>
  \o <<CMD_DATAIN_POS_EDGE, DATASIZE_1BIT>>
  \o <<CMD_SEND_IMMEDIATE>>

\* variant of HandshakeCmd: the ACK clocked out with the data line as input
HandshakeCmd_ackin(nack) ==
  IF nack
  THEN <<CMD_SET_DATABITS_LOW, VAL_SCLLO_SDALO, DIR_SCLOUT_SDAIN>>
       \o <<CMD_DATAOUT_NEG_EDGE, DATASIZE_1BIT, DATA_SEND_NACK>>
  ELSE <<CMD_SET_DATABITS_LOW, VAL_SCLLO_SDALO, DIR_SCLOUT_SDAIN>>
       \o <<CMD_DATAOUT_NEG_EDGE, DATASIZE_1BIT, DATA_SEND_ACK>>

\* __ft_i2c_read_give_ack: the handshake part of cmd_data (the if/else)
HandshakeCmd(nack) ==
  IF nack
  THEN <<CMD_SET_DATABITS_LOW, VAL_SCLLO_SDALO, DIR_SCLOUT_SDAIN>>
       \o <<CMD_DATAOUT_NEG_EDGE, DATASIZE_1BIT, DATA_SEND_NACK>>
  ELSE <<CMD_SET_DATABITS_LOW, VAL_SCLLO_SDALO, DIR_SCLOUT_SDAOUT>>
       \o <<CMD_DATAOUT_NEG_EDGE, DATASIZE_1BIT, DATA_SEND_ACK>>

\* variant of ReadGiveAckCmd: the handshake bit clocked back in as well
ReadGiveAckCmd_twoin(nack) ==
  <<CMD_SET_DATABITS_LOW, VAL_SCLLO_SDALO, DIR_SCLOUT_SDAIN>>
  \o <<CMD_DATAIN_POS_EDGE, DATASIZE_8BITS>>
  \o HandshakeCmd(nack)
  \o <<CMD_SET_DATABITS_LOW, VAL_SCLLO_SDALO, DIR_SCLOUT_SDAIN>>
  \o <<CMD_DATAIN_POS_EDGE, DATASIZE_1BIT>>
  \o <<CMD_SEND_IMMEDIATE>>

\* __ft_i2c_read_give_ack: cmd_data
ReadGiveAckCmd(nack) ==
  <<CMD_SET_DATABITS_LOW, VAL_SCLLO_SDALO, DIR_SCLOUT_SDAIN>>
  \o <<CMD_DATAIN_POS_EDGE, DATASIZE_8BITS>>
  \o HandshakeCmd(nack)
  \o <<CMD_SET_DATABITS_LOW, VAL_SCLLO_SDALO, DIR_SCLOUT_SDAIN>>
  \o <<CMD_SEND_IMMEDIATE>>

\* variant of DevAddrByte: the low bit of bus_addr not masked off
DevAddrByte_nomask(bus_addr, read) ==
  IF read THEN BitOr(bus_addr, 1) ELSE bus_addr

\* __ft_i2c_dev_addr: the byte handed to __ft_i2c_write_get_ack
DevAddrByte(bus_addr, read) ==
  LET addr == BitAnd(bus_addr, 254)
  IN IF read THEN BitOr(addr, 1) ELSE addr

\* variants of IsNack: testing bit 7, and testing the whole byte
IsNack_bit7(result) == BitAnd(result[1], 128) # 0
IsNack_nonzero(result) == result[1] # 0

\* __ft_i2c_write_get_ack: "if result[0] & 0x1" on a non-empty result
IsNack(result) == BitAnd(result[1], 1) # 0

\* variant of LastByte: compared with num_bytes, so never true in the loop
LastByte_offbyone(i, num_bytes) == i = num_bytes

\* __ft_i2c_read_bytes: the argument of __ft_i2c_read_give_ack in the loop
LastByte(i, num_bytes) == i = num_bytes - 1


\* variant of Unpack: big-endian ('>')
Unpack_be(num_words, rd) ==
  [k \in 1..num_words |-> 256 * rd[2 * k - 1] + rd[2 * k]]

\* struct.unpack('<' + 'H'*num_words, bytes(rd)): little-endian unsigned shorts
Unpack(num_words, rd) ==
  [k \in 1..num_words |-> rd[2 * k - 1] + 256 * rd[2 * k]]

(***************************************************************************)
(* The device behind the bus: a 16-bit register file per 7-bit address,    *)
(* read low byte first, the register pointer advancing after each word.    *)
(* `mem` selects the contents.                                             *)
(***************************************************************************)
Mems == {4660, 43981}

RegWord(mem, dev7, reg) == (mem + 259 * reg + 7 * dev7) % 65536

DevByte(mem, dev7, ptr, k) ==
  LET w == RegWord(mem, dev7, (ptr + (k \div 2)) % 256)
  IN IF k % 2 = 0 THEN w % 256 ELSE w \div 256

(***************************************************************************)
(* The bridge chip: interpreter of the command bytes handed to             *)
(* self.__dev.write.  h is the chip, bus and slave state:                  *)
(*   val, dir   last pin values and directions (bit 0 clock, bit 1 data)   *)
(*   pend       response bytes not yet flushed to the host                 *)
(*   rxq        response bytes the host can read                           *)
(*   st, sel, ptr, k   the slave: state, addressed device, pointer, count  *)
(*   cmds       the decoded commands, bus: the I2C events seen on the bus  *)
(***************************************************************************)
\* line levels: a line driven as output has its value, a released line is
\* pulled high
SclLevel(val, dir) == IF dir % 2 = 1 THEN val % 2 ELSE 1
SdaOut(dir) == (dir \div 2) % 2 = 1
SdaLevel(val, dir) == IF SdaOut(dir) THEN (val \div 2) % 2 ELSE 1

Cmd(op, a, b) == [op |-> op, a |-> a, b |-> b]
Ev(e, b) == [e |-> e, b |-> b]

SetPins(h, v, d) ==
  LET c0 == SclLevel(h.val, h.dir)
      d0 == SdaLevel(h.val, h.dir)
      c1 == SclLevel(v, d)
      d1 == SdaLevel(v, d)
      cond == IF c0 = 1 /\ c1 = 1 /\ d0 = 1 /\ d1 = 0 THEN "S"
              ELSE IF c0 = 1 /\ c1 = 1 /\ d0 = 0 /\ d1 = 1 THEN "P"
              ELSE "-"
  IN [h EXCEPT !.val = v, !.dir = d,
               !.cmds = Append(@, Cmd("pins", v, d)),
               !.bus = IF cond = "-" THEN @ ELSE Append(@, Ev(cond, 0)),
               !.st = IF cond = "S" THEN "addr"
                      ELSE IF cond = "P" THEN "idle" ELSE @]

ClockOut(h, len, data) ==
  LET onbus == IF SdaOut(h.dir) THEN data ELSE 255
  IN IF len = DATASIZE_8BITS
     THEN [h EXCEPT !.cmds = Append(@, Cmd("out", len, data)),
                    !.bus = Append(@, Ev("W", onbus)),
                    !.st = IF h.st = "addr"
                           THEN (IF onbus % 2 = 1 THEN "rd" ELSE "wr")
                           ELSE @,
                    !.sel = IF h.st = "addr" THEN onbus \div 2 ELSE @,
                    !.k = IF h.st = "addr" THEN 0 ELSE @,
                    !.ptr = IF h.st = "wr" THEN onbus ELSE @]
     ELSE LET bit == onbus \div 128
          IN [h EXCEPT !.cmds = Append(@, Cmd("out", len, data)),
                       !.bus = Append(@, Ev("M", bit)),
                       !.st = IF h.st = "rd" /\ bit = 1 THEN "idle" ELSE @]

ClockIn(h, len, ackb) ==
  IF len = DATASIZE_1BIT
  THEN LET got == IF SdaOut(h.dir) THEN (h.val \div 2) % 2 ELSE ackb
       IN [h EXCEPT !.cmds = Append(@, Cmd("in", len, 0)),
                    !.bus = Append(@, Ev("A", got % 2)),
                    !.pend = Append(@, got),
                    !.st = IF got % 2 = 1 THEN "idle" ELSE @]
  ELSE LET got == IF h.st = "rd" /\ ~SdaOut(h.dir)
                  THEN DevByte(h.mem, h.sel, h.ptr, h.k) ELSE 255
       IN [h EXCEPT !.cmds = Append(@, Cmd("in", len, 0)),
                    !.bus = Append(@, Ev("R", got)),
                    !.pend = Append(@, got),
                    !.k = @ + 1]

Flush(h) ==
  [h EXCEPT !.cmds = Append(@, Cmd("flush", 0, 0)),
            !.rxq = @ \o h.pend, !.pend = <<>>]

\* the chip runs the stream s from byte i on; ackb is the byte the chip
\* answers to a 1-bit clock-in (bit 0 is the level the slave puts on the data
\* line, the other seven bits are whatever the shift register held)
RECURSIVE Exec(_, _, _, _)
Exec(s, i, h, ackb) ==
  IF i > Len(s) THEN h
  ELSE IF s[i] = CMD_SET_DATABITS_LOW
       THEN Exec(s, i + 3, SetPins(h, s[i + 1], s[i + 2]), ackb)
  ELSE IF s[i] = CMD_DATAOUT_NEG_EDGE
       THEN Exec(s, i + 3, ClockOut(h, s[i + 1], s[i + 2]), ackb)
  ELSE IF s[i] = CMD_DATAIN_POS_EDGE
       THEN Exec(s, i + 2, ClockIn(h, s[i + 1], ackb), ackb)
  ELSE IF s[i] = CMD_SEND_IMMEDIATE
       THEN Exec(s, i + 1, Flush(h), ackb)
  ELSE IF s[i] = CMD_SET_CLOCK
       THEN Exec(s, i + 3, [h EXCEPT !.cmds = Append(@, Cmd("clock", s[i + 1], s[i + 2])),
                                     !.clkdiv = s[i + 1] + 256 * s[i + 2]], ackb)
  ELSE IF s[i] = CMD_CLKDIV_DISABLE
       THEN Exec(s, i + 1, [h EXCEPT !.cmds = Append(@, Cmd("clkdiv", 0, 0)),
                                     !.clkcmd = s[i]], ackb)
  ELSE Exec(s, i + 1, [h EXCEPT !.cmds = Append(@, Cmd("other", s[i], 0))], ackb)

\* smbus2: SMBus.read_i2c_block_data(i2c_addr, register, length) on the same
\* device: pointer write, repeated start, `length` bytes read
read_i2c_block_data(mem, i2c_addr, register, length) ==
  [k \in 1..length |-> DevByte(mem, i2c_addr, register, k - 1)]


(***************************************************************************)
(* State.                                                                  *)
(***************************************************************************)
VARIABLES
  pc,        \* per caller: where its logical call stands
  frame,     \* per caller: the running call and its arguments
  out_data,  \* per caller: out_data of __ft_i2c_read_bytes
  ret,       \* per caller: what the call returned or raised
  sm_ret,    \* per caller: what the smbus2 backend returns for the same call
  hw,        \* the bridge chip, the bus and the slave
  wire,      \* the transport writes and reads of the running call, in order
  ncalls,    \* logical calls started so far
  nshort,    \* transport reads that returned short so far
  prev,      \* the call that ran before the running one: its arguments, its
             \* transport operations and its outcome
  lg,        \* the logger: start_logging's locals and the file it writes
  mutex      \* a lock the callers may hold around a whole logical call:
             \* whether they use it, and the caller holding it (0: nobody)

vars == <<pc, frame, out_data, ret, sm_ret, hw, wire, ncalls, nshort, prev, lg, mutex>>

Callers == {1, 2}
\* the single caller the engine is written for
Single == {1}

\* arguments the callers use
BusAddrs == {108, 23}
RegAddrs == {0, 176}
\* bytes the chip may answer to a 1-bit clock-in
AckBytes == {0, 254, 1}

NoFrame == [fn |-> "none", bus_addr |-> 0, reg_addr |-> 0, num |-> 0, read |-> FALSE]
NoRet == [kind |-> "none", val |-> <<>>]
NoPrev == [frame |-> NoFrame, wire |-> <<>>, ret |-> NoRet]
\* the callers use no lock: the engine itself has none
NoMutex == [used |-> FALSE, owner |-> 0]
\* start_logging not entered
NoLog == [pc |-> "off"]

\* num_bytes handed to __ft_i2c_read_bytes by the running call
NumBytes(f) ==
  IF f.fn \in {"i2c_read_words", "sbs_word_read"} THEN f.num * 2 ELSE f.num

\* state after ftd2xx_i2c.__init__: MPSSE enabled, receive queue flushed,
\* pins set to 0x13/0x13, no call running
Init ==
  /\ pc = [t \in Callers |-> "idle"]
  /\ frame = [t \in Callers |-> NoFrame]
  /\ out_data = [t \in Callers |-> <<>>]
  /\ ret = [t \in Callers |-> NoRet]
  /\ sm_ret = [t \in Callers |-> NoRet]
  /\ \E m \in Mems :
       hw = [val |-> 19, dir |-> 19, pend |-> <<>>, rxq |-> <<>>,
             st |-> "idle", sel |-> 0, ptr |-> 0, k |-> 0, mem |-> m,
             cmds |-> <<>>, bus |-> <<>>,
             opens |-> 1, latency |-> LATENCY_TIMER, bitmode |-> MODE_MPSSE,
             clkcmd |-> CMD_CLKDIV_DISABLE,
             clkdiv |-> ClockDivisor(MASTER_CLOCK, CLOCK_RATE)]
  /\ wire = <<>>
  /\ ncalls = 0
  /\ nshort = 0
  /\ prev = NoPrev
  /\ mutex = NoMutex
  /\ lg = NoLog

\* a driver call as the transport sees it: n is the byte count of a write and
\* the count a read asks for, data the bytes written or handed back
W(t, by, data) == [t |-> t, op |-> "write", by |-> by, data |-> data, n |-> Len(data)]
R(t, by, n, data) == [t |-> t, op |-> "read", by |-> by, data |-> data, n |-> n]

\* __ft_write: self.__dev.write(bytes(data))
FtWrite(t, by, data, ackb) ==
  /\ hw' = Exec(data, 1, hw, ackb)
  /\ wire' = Append(wire, W(t, by, data))

\* __ft_read(nbytes): self.__dev.read(nbytes) handing back the first `got`
\* bytes queued
FtReadN(t, by, nbytes, got) ==
  /\ got <= nbytes
  /\ hw' = [hw EXCEPT !.rxq = SubSeq(@, got + 1, Len(@))]
  /\ wire' = Append(wire, R(t, by, nbytes, SubSeq(hw.rxq, 1, got)))

\* the __ft_read(1) of the two bus primitives
FtRead(t, by, got) == FtReadN(t, by, 1, got)

\* one of the three public reads is entered
Call(t, maxw, maxb) ==
  /\ pc[t] \in {"idle", "done", "raised"}
  /\ ncalls < MaxCalls
  /\ \E b \in BusAddrs, r \in RegAddrs :
       \/ \E n \in 1..maxw :
            frame' = [frame EXCEPT ![t] = [fn |-> "i2c_read_words", bus_addr |-> b,
                                           reg_addr |-> r, num |-> n, read |-> FALSE]]
       \/ \E n \in 0..maxb :
            frame' = [frame EXCEPT ![t] = [fn |-> "sbs_block_read", bus_addr |-> b,
                                           reg_addr |-> r, num |-> n, read |-> FALSE]]
       \/ frame' = [frame EXCEPT ![t] = [fn |-> "sbs_word_read", bus_addr |-> b,
                                         reg_addr |-> r, num |-> 1, read |-> FALSE]]
  /\ pc' = [pc EXCEPT ![t] = "wr_start"]
  /\ out_data' = [out_data EXCEPT ![t] = <<>>]
  /\ ret' = [ret EXCEPT ![t] = NoRet]
  /\ sm_ret' = [sm_ret EXCEPT ![t] = NoRet]
  /\ hw' = [hw EXCEPT !.cmds = <<>>, !.bus = <<>>]
  /\ wire' = <<>>
  /\ ncalls' = ncalls + 1
  /\ UNCHANGED nshort
  /\ UNCHANGED <<prev, lg, mutex>>

\* __ft_i2c_start, from __ft_i2c_write_reg_addr and from __ft_i2c_read_bytes
ft_i2c_start(t) ==
  /\ pc[t] \in {"wr_start", "rd_start"}
  /\ FtWrite(t, "__ft_i2c_start", StartCmd, 0)
  /\ pc' = [pc EXCEPT ![t] = IF pc[t] = "wr_start" THEN "wr_dev_w" ELSE "rd_dev_w"]
  /\ UNCHANGED <<frame, out_data, ret, sm_ret, ncalls, nshort>>
  /\ UNCHANGED <<prev, lg, mutex>>

\* the byte the running __ft_i2c_write_get_ack sends
AckData(t) ==
  IF pc[t] = "wr_dev_w" THEN DevAddrByte(frame[t].bus_addr, FALSE)
  ELSE IF pc[t] = "wr_reg_w" THEN frame[t].reg_addr
  ELSE IF pc[t] = "rd_dev_w" THEN DevAddrByte(frame[t].bus_addr, TRUE)
  ELSE DevAddrByte(frame[t].bus_addr, frame[t].read)

\* variant of AfterAck: the read phase entered without its own START
AfterAck_nostart(t) ==
  IF pc[t] = "wr_dev_r" THEN "wr_reg_w"
  ELSE IF pc[t] = "wr_reg_r" THEN "rd_dev_w"
  ELSE IF pc[t] = "rd_dev_r"
       THEN (IF NumBytes(frame[t]) > 0 THEN "rd_byte_w" ELSE "rd_stop")
  ELSE "done"

\* where the caller of __ft_i2c_write_get_ack goes on after an ACK
AfterAck(t) ==
  IF pc[t] = "wr_dev_r" THEN "wr_reg_w"
  ELSE IF pc[t] = "wr_reg_r" THEN "rd_start"
  ELSE IF pc[t] = "rd_dev_r"
       THEN (IF NumBytes(frame[t]) > 0 THEN "rd_byte_w" ELSE "rd_stop")
  ELSE "done"

\* __ft_i2c_write_get_ack up to self.__ft_write(cmd_data)
ft_i2c_write_get_ack_write(t, acks) ==
  /\ pc[t] \in {"wr_dev_w", "wr_reg_w", "rd_dev_w", "prim_w"}
  /\ \E ackb \in acks :
       FtWrite(t, "__ft_i2c_write_get_ack", WriteGetAckCmd(AckData(t)), ackb)
  /\ pc' = [pc EXCEPT ![t] = CASE pc[t] = "wr_dev_w" -> "wr_dev_r"
                               [] pc[t] = "wr_reg_w" -> "wr_reg_r"
                               [] pc[t] = "rd_dev_w" -> "rd_dev_r"
                               [] OTHER -> "prim_r"]
  /\ UNCHANGED <<frame, out_data, ret, sm_ret, ncalls, nshort>>
  /\ UNCHANGED <<prev, lg, mutex>>

\* variant of AckOutcome: an empty result taken for an ACK
AckOutcome_noindex(result) ==
  IF Len(result) # 0 /\ IsNack(result) THEN "IOError" ELSE "ok"

\* __ft_i2c_write_get_ack after the read: result[0] of an empty list raises
\* IndexError, a set bit 0 raises IOError
AckOutcome(result) ==
  IF Len(result) = 0 THEN "IndexError"
  ELSE IF IsNack(result) THEN "IOError"
  ELSE "ok"

\* __ft_i2c_write_get_ack from result = self.__ft_read(1) on; the transport
\* hands back `got` bytes
ft_i2c_write_get_ack_read(t, got) ==
  /\ pc[t] \in {"wr_dev_r", "wr_reg_r", "rd_dev_r", "prim_r"}
  /\ Len(hw.rxq) >= got
  /\ FtRead(t, "__ft_i2c_write_get_ack", got)
  /\ LET out == AckOutcome(SubSeq(hw.rxq, 1, got))
     IN IF out = "ok"
        THEN /\ pc' = [pc EXCEPT ![t] = AfterAck(t)]
             /\ UNCHANGED ret
        ELSE /\ pc' = [pc EXCEPT ![t] = "raised"]
             /\ ret' = [ret EXCEPT ![t] = [kind |-> out, val |-> <<>>]]
  /\ nshort' = IF got < 1 THEN nshort + 1 ELSE nshort
  /\ UNCHANGED <<frame, out_data, sm_ret, ncalls>>
  /\ UNCHANGED <<prev, lg, mutex>>

\* __ft_i2c_read_give_ack up to self.__ft_write(cmd_data), called by the loop
\* of __ft_i2c_read_bytes with nack = (i == num_bytes - 1)
ft_i2c_read_give_ack_write(t) ==
  /\ pc[t] = "rd_byte_w"
  /\ FtWrite(t, "__ft_i2c_read_give_ack",
             ReadGiveAckCmd(LastByte(Len(out_data[t]), NumBytes(frame[t]))), 0)
  /\ pc' = [pc EXCEPT ![t] = "rd_byte_r"]
  /\ UNCHANGED <<frame, out_data, ret, sm_ret, ncalls, nshort>>
  /\ UNCHANGED <<prev, lg, mutex>>

\* __ft_i2c_read_give_ack: return self.__ft_read(1)[0]
ReadOutcome(result) == IF Len(result) = 0 THEN "IndexError" ELSE "ok"

\* return self.__ft_read(1)[0], and out_data.append of it in the loop
ft_i2c_read_give_ack_read(t, got) ==
  /\ pc[t] = "rd_byte_r"
  /\ Len(hw.rxq) >= got
  /\ FtRead(t, "__ft_i2c_read_give_ack", got)
  /\ LET result == SubSeq(hw.rxq, 1, got)
     IN IF ReadOutcome(result) = "ok"
        THEN /\ out_data' = [out_data EXCEPT ![t] = Append(@, result[1])]
             /\ pc' = [pc EXCEPT ![t] =
                         IF Len(out_data[t]) + 1 < NumBytes(frame[t])
                         THEN "rd_byte_w" ELSE "rd_stop"]
             /\ UNCHANGED ret
        ELSE /\ pc' = [pc EXCEPT ![t] = "raised"]
             /\ ret' = [ret EXCEPT ![t] = [kind |-> ReadOutcome(result), val |-> <<>>]]
             /\ UNCHANGED out_data
  /\ nshort' = IF got < 1 THEN nshort + 1 ELSE nshort
  /\ UNCHANGED <<frame, sm_ret, ncalls>>
  /\ UNCHANGED <<prev, lg, mutex>>

\* variant of Result: the block read taking its first byte for a length
\* prefix and dropping it
Result_skiplen(f, rd) ==
  IF f.fn = "i2c_read_words" THEN [kind |-> "value", val |-> Unpack(f.num, rd)]
  ELSE IF f.fn = "sbs_block_read" THEN [kind |-> "value", val |-> SubSeq(rd, 2, Len(rd))]
  ELSE [kind |-> "word", val |-> <<Unpack(1, rd)[1]>>]

\* what the public read returns from rd = out_data
Result(f, rd) ==
  IF f.fn = "i2c_read_words" THEN [kind |-> "value", val |-> Unpack(f.num, rd)]
  ELSE IF f.fn = "sbs_block_read" THEN [kind |-> "value", val |-> rd]
  ELSE [kind |-> "word", val |-> <<Unpack(1, rd)[1]>>]

\* __ft_i2c_stop at the end of __ft_i2c_read_bytes (stop = True), then the
\* return of the public read
ft_i2c_stop(t) ==
  /\ pc[t] = "rd_stop"
  /\ FtWrite(t, "__ft_i2c_stop", StopCmd, 0)
  /\ pc' = [pc EXCEPT ![t] = "done"]
  /\ ret' = [ret EXCEPT ![t] = Result(frame[t], out_data[t])]
  /\ UNCHANGED <<frame, out_data, sm_ret, ncalls, nshort>>
  /\ UNCHANGED <<prev, lg, mutex>>

\* the smbus2 backend answering the same call on the same device
Smbus2Result(f, mem) ==
  IF f.fn = "i2c_read_words"
  THEN [kind |-> "value",
        val |-> Unpack(f.num, read_i2c_block_data(mem, ShiftRight1(f.bus_addr),
                                                  f.reg_addr, f.num * 2))]
  ELSE IF f.fn = "sbs_block_read"
  THEN [kind |-> "value",
        val |-> read_i2c_block_data(mem, ShiftRight1(f.bus_addr), f.reg_addr, f.num)]
  ELSE [kind |-> "word",
        val |-> <<Unpack(1, read_i2c_block_data(mem, ShiftRight1(f.bus_addr),
                                                f.reg_addr, 2))[1]>>]

smbus2_read(t) ==
  /\ pc[t] = "done"
  /\ frame[t].fn \in {"i2c_read_words", "sbs_block_read", "sbs_word_read"}
  /\ sm_ret[t].kind = "none"
  /\ sm_ret' = [sm_ret EXCEPT ![t] = Smbus2Result(frame[t], hw.mem)]
  /\ UNCHANGED <<pc, frame, out_data, ret, hw, wire, ncalls, nshort>>
  /\ UNCHANGED <<prev, lg, mutex>>

Next ==
  \E t \in Single :
    \/ Call(t, MaxWords, MaxBytes)
    \/ ft_i2c_start(t)
    \/ ft_i2c_write_get_ack_write(t, AckBytes)
    \/ ft_i2c_write_get_ack_read(t, 1)
    \/ ft_i2c_read_give_ack_write(t)
    \/ ft_i2c_read_give_ack_read(t, 1)
    \/ ft_i2c_stop(t)
    \/ smbus2_read(t)

Spec == Init /\ [][Next]_vars


(***************************************************************************)
(* A transport whose read may come back short (a bounded wait that ran     *)
(* out before the response arrived): the read hands back no byte and the   *)
(* response stays queued in the chip.                                      *)
(***************************************************************************)
ShortNext ==
  \E t \in Single :
    \/ Call(t, ShortWords, ShortBytes)
    \/ ft_i2c_start(t)
    \/ ft_i2c_write_get_ack_write(t, AckBytes)
    \/ \E got \in 0..1 :
         /\ got = 1 \/ nshort < MaxShort
         /\ ft_i2c_write_get_ack_read(t, got)
    \/ ft_i2c_read_give_ack_write(t)
    \/ \E got \in 0..1 :
         /\ got = 1 \/ nshort < MaxShort
         /\ ft_i2c_read_give_ack_read(t, got)
    \/ ft_i2c_stop(t)

SpecShort == Init /\ [][ShortNext]_vars

(***************************************************************************)
(* The addressing primitive on its own: __ft_i2c_dev_addr(bus_addr, read)  *)
(* for every 8-bit address and both flags, the chip answering the ack      *)
(* clock-in with any byte.                                                 *)
(***************************************************************************)
dev_addr_call(t) ==
  /\ pc[t] = "idle"
  /\ \E a \in Byte, r \in BOOLEAN :
       frame' = [frame EXCEPT ![t] = [fn |-> "__ft_i2c_dev_addr", bus_addr |-> a,
                                      reg_addr |-> 0, num |-> 0, read |-> r]]
  /\ pc' = [pc EXCEPT ![t] = "prim_w"]
  /\ ncalls' = ncalls + 1
  /\ UNCHANGED <<out_data, ret, sm_ret, hw, wire, nshort>>
  /\ UNCHANGED <<prev, lg, mutex>>

PrimNext ==
  \E t \in Single :
    \/ dev_addr_call(t)
    \/ ft_i2c_write_get_ack_write(t, Byte)
    \/ ft_i2c_write_get_ack_read(t, 1)

SpecPrim == Init /\ [][PrimNext]_vars


(***************************************************************************)
(* Construction: ftd2xx_i2c.__init__ from the open of the device to the    *)
(* idle pin state, on a chip whose receive queue may hold bytes left by an *)
(* earlier user, followed by logical reads on the instance.                *)
(***************************************************************************)
\* the bytes an earlier user may have left in the receive queue
StaleBytes == {85}

\* what the chip sends back for a byte it does not know as a command
\* (0xFA and the byte); whether it answers is the chip's choice
BadCommandAnswer(byte) == <<250, byte>>

\* variant of CtorSteps: MPSSE enabled before the bit mode is reset
CtorSteps_resetlast ==
  <<"open", "setLatencyTimer", "mpsse", "reset", "sleep",
    "clkdiv", "clock", "flush", "pins">>

\* the statements of __init__ that touch the device, in program order
CtorSteps ==
  <<"open", "setLatencyTimer", "reset", "mpsse", "sleep",
    "clkdiv", "clock", "flush", "pins">>

\* the step __init__ of caller t is about to run
CtorStep(t) == CtorSteps[frame[t].num]

\* the list __init__ hands to __ft_write in a write step
CtorData(step) ==
  IF step = "clkdiv" THEN <<CMD_CLKDIV_DISABLE, 1>>
  ELSE IF step = "clock" THEN SetClockCmd(ClockDivisor(MASTER_CLOCK, CLOCK_RATE))
  ELSE <<CMD_SET_DATABITS_LOW, 19, 19>>

\* a driver call that is neither a write nor a read
D(t, op, args) == [t |-> t, op |-> op, by |-> "__init__", data |-> args, n |-> 0]

\* the chip before the open: pins not driven, settings whatever the last user
\* left (none of them the ones __init__ programs), q queued for the host
PowerOn(m, q) ==
  [val |-> 0, dir |-> 0, pend |-> <<>>, rxq |-> q,
   st |-> "idle", sel |-> 0, ptr |-> 0, k |-> 0, mem |-> m,
   cmds |-> <<>>, bus |-> <<>>,
   opens |-> 0, latency |-> 16, bitmode |-> 0, clkcmd |-> 0, clkdiv |-> 0]

CtorInit ==
  /\ pc = [t \in Callers |-> IF t \in Single THEN "ctor" ELSE "idle"]
  /\ frame = [t \in Callers |->
                IF t \in Single
                THEN [fn |-> "__init__", bus_addr |-> 0, reg_addr |-> 0,
                      num |-> 1, read |-> FALSE]
                ELSE NoFrame]
  /\ out_data = [t \in Callers |-> <<>>]
  /\ ret = [t \in Callers |-> NoRet]
  /\ sm_ret = [t \in Callers |-> NoRet]
  /\ \E m \in Mems, b \in StaleBytes, n \in 0..MaxStale :
       hw = PowerOn(m, Rep(<<b>>, n))
  /\ wire = <<>>
  /\ ncalls = 0
  /\ nshort = 0
  /\ prev = NoPrev
  /\ mutex = NoMutex
  /\ lg = NoLog

\* __init__ moves to its next statement, or returns the instance
CtorAdvance(t) ==
  IF frame[t].num = Len(CtorSteps)
  THEN /\ pc' = [pc EXCEPT ![t] = "idle"]
       /\ frame' = [frame EXCEPT ![t] = NoFrame]
  ELSE /\ pc' = pc
       /\ frame' = [frame EXCEPT ![t].num = @ + 1]

\* self.__dev = _ftd.open(bus_num)
ctor_open(t) ==
  /\ pc[t] = "ctor"
  /\ CtorStep(t) = "open"
  /\ hw' = [hw EXCEPT !.opens = @ + 1]
  /\ wire' = Append(wire, D(t, "open", <<frame[t].bus_addr>>))
  /\ CtorAdvance(t)
  /\ UNCHANGED <<out_data, ret, sm_ret, ncalls, nshort, prev, lg, mutex>>

\* self.__dev.setLatencyTimer(8)
ctor_setLatencyTimer(t) ==
  /\ pc[t] = "ctor"
  /\ CtorStep(t) = "setLatencyTimer"
  /\ hw' = [hw EXCEPT !.latency = LATENCY_TIMER]
  /\ wire' = Append(wire, D(t, "setLatencyTimer", <<LATENCY_TIMER>>))
  /\ CtorAdvance(t)
  /\ UNCHANGED <<out_data, ret, sm_ret, ncalls, nshort, prev, lg, mutex>>

\* self.__dev.setBitMode(0, 0) and self.__dev.setBitMode(0, 2)
ctor_setBitMode(t) ==
  /\ pc[t] = "ctor"
  /\ CtorStep(t) \in {"reset", "mpsse"}
  /\ LET mode == IF CtorStep(t) = "reset" THEN MODE_RESET ELSE MODE_MPSSE
     IN /\ hw' = [hw EXCEPT !.bitmode = mode]
        /\ wire' = Append(wire, D(t, "setBitMode", <<0, mode>>))
  /\ CtorAdvance(t)
  /\ UNCHANGED <<out_data, ret, sm_ret, ncalls, nshort, prev, lg, mutex>>

\* sleep(0.05)
ctor_sleep(t) ==
  /\ pc[t] = "ctor"
  /\ CtorStep(t) = "sleep"
  /\ wire' = Append(wire, D(t, "sleep", <<>>))
  /\ CtorAdvance(t)
  /\ UNCHANGED <<out_data, ret, sm_ret, hw, ncalls, nshort, prev, lg, mutex>>

IsOther(c) == c.op = "other"

\* the three __ft_write of __init__; a byte the chip does not know as a
\* command is answered or not
ctor_write(t) ==
  /\ pc[t] = "ctor"
  /\ CtorStep(t) \in {"clkdiv", "clock", "pins"}
  /\ LET data == CtorData(CtorStep(t))
         h == Exec(data, 1, hw, 0)
         others == SelectSeq(h.cmds, IsOther)
     IN /\ \E answered \in (IF others = <<>> THEN {FALSE} ELSE BOOLEAN) :
             hw' = IF answered
                   THEN [h EXCEPT !.rxq = @ \o BadCommandAnswer(others[Len(others)].a)]
                   ELSE h
        /\ wire' = Append(wire, W(t, "__init__", data))
  /\ CtorAdvance(t)
  /\ UNCHANGED <<out_data, ret, sm_ret, ncalls, nshort, prev, lg, mutex>>

\* self.__ft_read(2), "Flush the read queue": the driver hands back the two
\* bytes asked for, or the fewer that are queued when its wait runs out
ctor_read(t) ==
  /\ pc[t] = "ctor"
  /\ CtorStep(t) = "flush"
  /\ FtReadN(t, "__init__", 2, IF Len(hw.rxq) < 2 THEN Len(hw.rxq) ELSE 2)
  /\ CtorAdvance(t)
  /\ UNCHANGED <<out_data, ret, sm_ret, ncalls, nshort, prev, lg, mutex>>

\* a driver call of __init__ raises: the exception leaves __init__, no
\* instance is bound
ctor_raise(t) ==
  /\ pc[t] = "ctor"
  /\ CtorStep(t) # "sleep"
  /\ pc' = [pc EXCEPT ![t] = "no_instance"]
  /\ ret' = [ret EXCEPT ![t] = [kind |-> "raised", val |-> <<"DeviceError">>]]
  /\ UNCHANGED <<frame, out_data, sm_ret, hw, wire, ncalls, nshort, prev, lg, mutex>>

CtorNext ==
  \E t \in Single :
    \/ ctor_open(t)
    \/ ctor_setLatencyTimer(t)
    \/ ctor_setBitMode(t)
    \/ ctor_sleep(t)
    \/ ctor_write(t)
    \/ ctor_read(t)
    \/ ctor_raise(t)
    \/ ncalls < CtorCalls /\ Call(t, CtorWords, CtorBytes)
    \/ ft_i2c_start(t)
    \/ ft_i2c_write_get_ack_write(t, AckBytes)
    \/ ft_i2c_write_get_ack_read(t, 1)
    \/ ft_i2c_read_give_ack_write(t)
    \/ ft_i2c_read_give_ack_read(t, 1)
    \/ ft_i2c_stop(t)

SpecCtor == CtorInit /\ [][CtorNext]_vars


(***************************************************************************)
(* The same word read issued again: sbs_word_read called with the          *)
(* arguments of the call that has just ended, on the same instance.        *)
(***************************************************************************)
\* variant of FreshOutData: the list of the earlier call kept and appended to
FreshOutData_keep(old) == old

\* __ft_i2c_read_bytes: out_data = [], a new list in every call
FreshOutData(old) == <<>>

\* sbs_word_read entered: the first time with any arguments, afterwards with
\* those of the call before, which is kept aside for comparison
sbs_word_read_call(t) ==
  /\ pc[t] \in {"idle", "done", "raised"}
  /\ ncalls < MaxCalls
  /\ IF pc[t] = "idle"
     THEN \E b \in BusAddrs, r \in RegAddrs :
            frame' = [frame EXCEPT ![t] = [fn |-> "sbs_word_read", bus_addr |-> b,
                                           reg_addr |-> r, num |-> 1, read |-> FALSE]]
     ELSE frame' = frame
  /\ prev' = [frame |-> frame[t], wire |-> wire, ret |-> ret[t]]
  /\ pc' = [pc EXCEPT ![t] = "wr_start"]
  /\ out_data' = [out_data EXCEPT ![t] = FreshOutData(@)]
  /\ ret' = [ret EXCEPT ![t] = NoRet]
  /\ sm_ret' = [sm_ret EXCEPT ![t] = NoRet]
  /\ hw' = [hw EXCEPT !.cmds = <<>>, !.bus = <<>>]
  /\ wire' = <<>>
  /\ ncalls' = ncalls + 1
  /\ UNCHANGED <<nshort, lg, mutex>>

TwiceNext ==
  \E t \in Single :
    \/ sbs_word_read_call(t)
    \/ ft_i2c_start(t)
    \/ ft_i2c_write_get_ack_write(t, AckBytes)
    \/ ft_i2c_write_get_ack_read(t, 1)
    \/ ft_i2c_read_give_ack_write(t)
    \/ ft_i2c_read_give_ack_read(t, 1)
    \/ ft_i2c_stop(t)

SpecTwice == Init /\ [][TwiceNext]_vars


(***************************************************************************)
(* The logger: get_header_fields and the loop of start_logging, over the   *)
(* register tables of max1730x_regs.  The bus is the I_I2C interface: a    *)
(* read hands back the device's content or raises.                         *)
(***************************************************************************)
\* the register pages in REGISTER_PAGES order; a reg_names entry is 1 for a
\* name and 0 for None
REGISTER_PAGES ==
  << [dev_addr |-> 108, base_addr |-> 0,
      reg_names |-> <<1, 1, 1, 1, 1, 1, 1, 1, 1, 1, 1, 1, 1, 1, 1, 1>>],
     [dev_addr |-> 108, base_addr |-> 16,
      reg_names |-> <<1, 1, 1, 1, 1, 1, 1, 1, 1, 1, 1, 1, 1, 1, 1, 1>>],
     [dev_addr |-> 108, base_addr |-> 32,
      reg_names |-> <<1, 1, 1, 1, 0, 0, 0, 1, 1, 1, 1, 1, 0, 0, 0, 0>>],
     [dev_addr |-> 108, base_addr |-> 48,
      reg_names |-> <<0, 0, 1, 0, 1, 1, 1, 0, 0, 1, 1, 0, 0, 1, 1, 1>>],
     [dev_addr |-> 108, base_addr |-> 64,
      reg_names |-> <<1, 0, 1, 0, 0, 1, 1, 0, 0, 1, 1, 0, 0, 1, 0, 0>>],
     [dev_addr |-> 108, base_addr |-> 160,
      reg_names |-> <<1, 1, 0, 0, 1, 1, 1, 1, 1, 1, 1, 1, 1, 1, 1, 0>>],
     [dev_addr |-> 108, base_addr |-> 176,
      reg_names |-> <<1, 1, 1, 1, 1, 1, 1, 1, 1, 1, 0, 1, 0, 0, 1, 0>>],
     [dev_addr |-> 108, base_addr |-> 208,
      reg_names |-> <<1, 0, 0, 0, 1, 0, 0, 1, 1, 1, 0, 1, 1, 1, 1, 1>>],
     [dev_addr |-> 108, base_addr |-> 240,
      reg_names |-> <<0, 0, 0, 0, 0, 1, 0, 0, 0, 0, 0, 1, 0, 0, 0, 1>>],
     [dev_addr |-> 22, base_addr |-> 384,
      reg_names |-> <<1, 1, 1, 1, 1, 1, 1, 1, 1, 1, 1, 1, 1, 1, 1, 1>>],
     [dev_addr |-> 22, base_addr |-> 400,
      reg_names |-> <<1, 1, 1, 1, 1, 1, 1, 1, 1, 1, 1, 1, 1, 1, 1, 1>>],
     [dev_addr |-> 22, base_addr |-> 416,
      reg_names |-> <<1, 1, 1, 1, 1, 1, 1, 1, 1, 1, 1, 1, 1, 1, 1, 1>>],
     [dev_addr |-> 22, base_addr |-> 432,
      reg_names |-> <<1, 1, 1, 1, 1, 1, 1, 1, 1, 1, 1, 1, 1, 1, 1, 1>>],
     [dev_addr |-> 22, base_addr |-> 448,
      reg_names |-> <<0, 0, 0, 0, 1, 1, 1, 1, 1, 1, 1, 1, 1, 1, 1, 1>>],
     [dev_addr |-> 22, base_addr |-> 464,
      reg_names |-> <<1, 1, 1, 1, 1, 1, 1, 1, 1, 1, 1, 1, 1, 1, 1, 1>>],
     [dev_addr |-> 22, base_addr |-> 480,
      reg_names |-> <<1, 1, 1, 1, 1, 1, 1, 1, 1, 1, 1, 1, 1, 1, 1, 1>>] >>

\* SBS_REGISTERS (the names are left out, the address stands for them)
SBS_REGISTERS ==
  << [dev_addr |-> 22, base_addr |-> 256, block_size |-> 0],
     [dev_addr |-> 22, base_addr |-> 257, block_size |-> 0],
     [dev_addr |-> 22, base_addr |-> 258, block_size |-> 0],
     [dev_addr |-> 22, base_addr |-> 259, block_size |-> 0],
     [dev_addr |-> 22, base_addr |-> 260, block_size |-> 0],
     [dev_addr |-> 22, base_addr |-> 262, block_size |-> 0],
     [dev_addr |-> 22, base_addr |-> 263, block_size |-> 0],
     [dev_addr |-> 22, base_addr |-> 264, block_size |-> 0],
     [dev_addr |-> 22, base_addr |-> 265, block_size |-> 0],
     [dev_addr |-> 22, base_addr |-> 266, block_size |-> 0],
     [dev_addr |-> 22, base_addr |-> 267, block_size |-> 0],
     [dev_addr |-> 22, base_addr |-> 268, block_size |-> 0],
     [dev_addr |-> 22, base_addr |-> 269, block_size |-> 0],
     [dev_addr |-> 22, base_addr |-> 270, block_size |-> 0],
     [dev_addr |-> 22, base_addr |-> 271, block_size |-> 0],
     [dev_addr |-> 22, base_addr |-> 272, block_size |-> 0],
     [dev_addr |-> 22, base_addr |-> 273, block_size |-> 0],
     [dev_addr |-> 22, base_addr |-> 274, block_size |-> 0],
     [dev_addr |-> 22, base_addr |-> 275, block_size |-> 0],
     [dev_addr |-> 22, base_addr |-> 276, block_size |-> 0],
     [dev_addr |-> 22, base_addr |-> 277, block_size |-> 0],
     [dev_addr |-> 22, base_addr |-> 278, block_size |-> 0],
     [dev_addr |-> 22, base_addr |-> 279, block_size |-> 0],
     [dev_addr |-> 22, base_addr |-> 280, block_size |-> 0],
     [dev_addr |-> 22, base_addr |-> 281, block_size |-> 0],
     [dev_addr |-> 22, base_addr |-> 282, block_size |-> 0],
     [dev_addr |-> 22, base_addr |-> 283, block_size |-> 0],
     [dev_addr |-> 22, base_addr |-> 284, block_size |-> 6],
     [dev_addr |-> 22, base_addr |-> 288, block_size |-> 5],
     [dev_addr |-> 22, base_addr |-> 289, block_size |-> 5],
     [dev_addr |-> 22, base_addr |-> 290, block_size |-> 4],
     [dev_addr |-> 22, base_addr |-> 291, block_size |-> 9],
     [dev_addr |-> 22, base_addr |-> 308, block_size |-> 0],
     [dev_addr |-> 22, base_addr |-> 309, block_size |-> 0],
     [dev_addr |-> 22, base_addr |-> 310, block_size |-> 0],
     [dev_addr |-> 22, base_addr |-> 311, block_size |-> 0],
     [dev_addr |-> 22, base_addr |-> 312, block_size |-> 0],
     [dev_addr |-> 22, base_addr |-> 319, block_size |-> 0],
     [dev_addr |-> 22, base_addr |-> 335, block_size |-> 0],
     [dev_addr |-> 22, base_addr |-> 359, block_size |-> 0],
     [dev_addr |-> 22, base_addr |-> 360, block_size |-> 0] >>

\* interval, the default of start_logging
INTERVAL == 5
STATUS_INTERVAL == 30

\* '{:04X}'.format(w) and '{:02X}'.format(r) as sequences of hex digits
Hex4(w) == <<(w \div 4096) % 16, (w \div 256) % 16, (w \div 16) % 16, w % 16>>
Hex2(r) == <<(r \div 16) % 16, r % 16>>

RECURSIVE Join(_)
Join(ss) == IF ss = <<>> THEN <<>> ELSE Head(ss) \o Join(Tail(ss))

\* a header field: the name ("RSVD" for a reserved register written under
\* keep_rsvd) and the address of its '_{:03X}' suffix
Hdr(name, addr) == [name |-> name, addr |-> addr]

IsKept(h) == h.name # "None"

\* the inner loop of get_header_fields for one page
PageHeader(page, keep_rsvd) ==
  LET all == [idx \in 1..Len(page.reg_names) |->
                IF keep_rsvd /\ page.reg_names[idx] = 0
                THEN Hdr("RSVD", page.base_addr + idx - 1)
                ELSE IF page.reg_names[idx] # 0
                THEN Hdr("reg", page.base_addr + idx - 1)
                ELSE Hdr("None", page.base_addr + idx - 1)]
  IN SelectSeq(all, IsKept)

get_header_fields(keep_rsvd) ==
  <<Hdr("Timestamp", 0)>>
  \o Join([p \in 1..Len(REGISTER_PAGES) |-> PageHeader(REGISTER_PAGES[p], keep_rsvd)])
  \o [j \in 1..Len(SBS_REGISTERS) |-> Hdr("sbs", SBS_REGISTERS[j].base_addr)]

IsTaken(x) == x.take

\* variant of PageFields: the reserved words written whatever keep_rsvd is
PageFields_keepall(page, reg_data, keep_rsvd) ==
  [idx \in 1..Len(reg_data) |-> Hex4(reg_data[idx])]

\* start_logging: what one page adds to row_data
PageFields(page, reg_data, keep_rsvd) ==
  LET all == [idx \in 1..Len(reg_data) |->
                [take |-> keep_rsvd \/ page.reg_names[idx] # 0,
                 f |-> Hex4(reg_data[idx])]]
      kept == SelectSeq(all, IsTaken)
  IN [k \in 1..Len(kept) |-> kept[k].f]

\* start_logging: what one SBS register adds to row_data
SbsField(sbs, reg_data) ==
  IF sbs.block_size > 0
  THEN Join([k \in 1..Len(reg_data) |-> Hex2(reg_data[k])])
  ELSE Hex4(reg_data[1])

\* bus_dev.i2c_read_words / sbs_block_read / sbs_word_read when it succeeds
BusRead(fn, dev_addr, reg_addr, num) ==
  Smbus2Result([fn |-> fn, bus_addr |-> dev_addr, reg_addr |-> reg_addr,
                num |-> num, read |-> FALSE], hw.mem).val

\* variant of AfterFault: the loop left on every fault
AfterFault_quit(quit_on_error) == "exit"

\* the except Exception handler: break when quit_on_error, else loop again
AfterFault(quit_on_error) == IF quit_on_error THEN "exit" ELSE "top"

\* str(int(now_time)) as a sequence of decimal digits
RECURSIVE Dec(_)
Dec(n) == IF n < 10 THEN <<n>> ELSE Append(Dec(n \div 10), n % 10)

engine == <<pc, frame, out_data, ret, sm_ret, hw, wire, ncalls, nshort, prev, mutex>>

\* start_logging entered on an opened bus, with either value of its two flags
LogInit ==
  /\ pc = [t \in Callers |-> "idle"]
  /\ frame = [t \in Callers |-> NoFrame]
  /\ out_data = [t \in Callers |-> <<>>]
  /\ ret = [t \in Callers |-> NoRet]
  /\ sm_ret = [t \in Callers |-> NoRet]
  /\ \E m \in Mems :
       hw = [val |-> 19, dir |-> 19, pend |-> <<>>, rxq |-> <<>>,
             st |-> "idle", sel |-> 0, ptr |-> 0, k |-> 0, mem |-> m,
             cmds |-> <<>>, bus |-> <<>>,
             opens |-> 1, latency |-> LATENCY_TIMER, bitmode |-> MODE_MPSSE,
             clkcmd |-> CMD_CLKDIV_DISABLE,
             clkdiv |-> ClockDivisor(MASTER_CLOCK, CLOCK_RATE)]
  /\ wire = <<>>
  /\ ncalls = 0
  /\ nshort = 0
  /\ prev = NoPrev
  /\ mutex = NoMutex
  /\ \E keep \in BOOLEAN, quit \in BOOLEAN :
       lg = [pc |-> "hdr", keep_rsvd |-> keep, quit_on_error |-> quit,
             header |-> <<>>, rows |-> <<>>, row_data |-> <<>>,
             record_ct |-> 0, status_time |-> 0, now_time |-> 0, next_time |-> 0,
             clock |-> 1, i |-> 0, attempts |-> 0, faults |-> 0, consec |-> 0,
             printed |-> <<>>, end |-> "none",
             waited |-> FALSE, after_wait |-> FALSE]

\* csv_wr.writerow(get_header_fields(keep_rsvd)); record_ct = 0; status_time = 0
log_header ==
  /\ lg.pc = "hdr"
  /\ lg' = [lg EXCEPT !.pc = "top",
                      !.header = get_header_fields(lg.keep_rsvd),
                      !.record_ct = 0, !.status_time = 0]
  /\ UNCHANGED engine

\* the head of the try body: now_time, next_time, row_data = [timestamp]
log_top ==
  /\ lg.pc = "top"
  /\ lg.attempts < MaxAttempts
  /\ lg' = [lg EXCEPT !.pc = "page", !.i = 1,
                      !.now_time = lg.clock, !.next_time = lg.clock + INTERVAL,
                      !.row_data = <<Dec(lg.clock)>>,
                      !.attempts = @ + 1,
                      !.after_wait = lg.waited, !.waited = FALSE]
  /\ UNCHANGED engine

\* one turn of "for page in REGISTER_PAGES" whose read succeeds
log_page ==
  /\ lg.pc = "page"
  /\ LET page == REGISTER_PAGES[lg.i]
         reg_data == BusRead("i2c_read_words", page.dev_addr,
                             BitAnd(page.base_addr, 255), 16)
         last == lg.i = Len(REGISTER_PAGES)
     IN lg' = [lg EXCEPT !.row_data = @ \o PageFields(page, reg_data, lg.keep_rsvd),
                         !.i = IF last THEN 1 ELSE @ + 1,
                         !.pc = IF last THEN "sbs" ELSE @]
  /\ UNCHANGED engine

\* one turn of "for sbs in SBS_REGISTERS" whose read succeeds
log_sbs ==
  /\ lg.pc = "sbs"
  /\ LET sbs == SBS_REGISTERS[lg.i]
         reg_data == IF sbs.block_size > 0
                     THEN BusRead("sbs_block_read", sbs.dev_addr,
                                  BitAnd(sbs.base_addr, 255), sbs.block_size)
                     ELSE BusRead("sbs_word_read", sbs.dev_addr,
                                  BitAnd(sbs.base_addr, 255), 1)
         last == lg.i = Len(SBS_REGISTERS)
     IN lg' = [lg EXCEPT !.row_data = Append(@, SbsField(sbs, reg_data)),
                         !.i = IF last THEN 1 ELSE @ + 1,
                         !.pc = IF last THEN "write" ELSE @]
  /\ UNCHANGED engine

\* csv_wr.writerow(row_data)
log_write ==
  /\ lg.pc = "write"
  /\ lg' = [lg EXCEPT !.rows = Append(@, lg.row_data), !.pc = "count"]
  /\ UNCHANGED engine

\* record_ct += 1; the status line when due
log_count ==
  /\ lg.pc = "count"
  /\ LET due == lg.now_time > lg.status_time
     IN lg' = [lg EXCEPT !.record_ct = @ + 1,
                         !.consec = 0,
                         !.printed = IF due THEN Append(@, "Records Logged") ELSE @,
                         !.status_time = IF due THEN lg.now_time + STATUS_INTERVAL ELSE @,
                         !.pc = "sleep"]
  /\ UNCHANGED engine

\* delay = next_time - time.time(); time.sleep(delay) when positive
log_sleep ==
  /\ lg.pc = "sleep"
  /\ LET delay == lg.next_time - lg.clock
     IN lg' = [lg EXCEPT !.clock = IF delay > 0 THEN @ + delay ELSE @,
                         !.waited = TRUE,
                         !.pc = "top"]
  /\ UNCHANGED engine

\* variant of log_fault: the handler writes out what the iteration collected
log_fault_flush ==
  /\ lg.pc \in {"page", "sbs", "write"}
  /\ lg' = [lg EXCEPT !.printed = Append(@, "Exception"),
                      !.faults = @ + 1,
                      !.consec = @ + 1,
                      !.rows = Append(@, lg.row_data),
                      !.pc = AfterFault(lg.quit_on_error),
                      !.end = IF AfterFault(lg.quit_on_error) = "exit"
                              THEN "Exception" ELSE @]
  /\ UNCHANGED engine

\* a bus read or the row write raises an exception that is not
\* KeyboardInterrupt: the except Exception handler
log_fault ==
  /\ lg.pc \in {"page", "sbs", "write"}
  /\ lg' = [lg EXCEPT !.printed = Append(@, "Exception"),
                      !.faults = @ + 1,
                      !.consec = @ + 1,
                      !.pc = AfterFault(lg.quit_on_error),
                      !.end = IF AfterFault(lg.quit_on_error) = "exit"
                              THEN "Exception" ELSE @]
  /\ UNCHANGED engine

\* KeyboardInterrupt raised inside the try body: the first handler
log_interrupt ==
  /\ lg.pc \in {"top", "page", "sbs", "write", "count", "sleep"}
  /\ lg' = [lg EXCEPT !.printed = Append(@, "User interrupt via Keyboard"),
                      !.pc = "exit",
                      !.end = "KeyboardInterrupt"]
  /\ UNCHANGED engine

LogNext ==
  \/ log_header
  \/ log_top
  \/ log_page
  \/ log_sbs
  \/ log_write
  \/ log_count
  \/ log_sleep
  \/ log_fault
  \/ log_interrupt

SpecLog == LogInit /\ [][LogNext]_vars


(***************************************************************************)
(* Views of the logs used by the properties.                               *)
(***************************************************************************)
IsEvR(e) == e.e = "R"
IsAckRead(w) == w.op = "read" /\ w.by = "__ft_i2c_write_get_ack"
IsDataRead(w) == w.op = "read" /\ w.by = "__ft_i2c_read_give_ack"
IsWrite(w) == w.op = "write"

\* the bytes the slave put on the bus in 8-bit clock-ins, in order
BusDataBytes ==
  LET rs == SelectSeq(hw.bus, IsEvR) IN [i \in 1..Len(rs) |-> rs[i].b]

\* the kinds of the bus events, in order
BusKinds == [i \in 1..Len(hw.bus) |-> hw.bus[i].e]

PublicFns == {"i2c_read_words", "sbs_block_read", "sbs_word_read"}

(***************************************************************************)
(* C1: in i2c_read_words, sbs_block_read and sbs_word_read, when the       *)
(* response to an ack-checked byte has bit 0 set, the call raises IOError, *)
(* the read that returned the NACK is the last transport operation of the  *)
(* call (no data-phase command, no STOP, no retry) and no value is         *)
(* returned; a NACK on the device-address write leaves the register        *)
(* pointer byte and the whole read phase unsent.                           *)
(***************************************************************************)
C1_NackAborts ==
  \A t \in Single :
    frame[t].fn \in PublicFns =>
      \A i \in 1..Len(wire) :
        (IsAckRead(wire[i]) /\ Len(wire[i].data) = 1 /\ wire[i].data[1] % 2 = 1) =>
          /\ i = Len(wire)
          /\ pc[t] = "raised"
          /\ ret[t] = [kind |-> "IOError", val |-> <<>>]
          /\ (i = 3 => BusKinds = <<"S", "W", "A">>)

\* a NACK on the device-address write has been read
C1_Witness ==
  /\ pc[1] = "raised"
  /\ frame[1].fn = "i2c_read_words"
  /\ Len(wire) = 3
  /\ wire[3].data = <<1>>

(***************************************************************************)
(* C2: a successful i2c_read_words with num_words in 1..MaxWords clocks in *)
(* exactly 2*num_words data bytes and returns num_words values, value k    *)
(* being byte 2k + 256 * byte 2k+1 (counting from 0) of those bytes; the   *)
(* bytes read back by the ack checks are not among them.                   *)
(***************************************************************************)
C2_WordsLittleEndian ==
  \A t \in Single :
    (pc[t] = "done" /\ frame[t].fn = "i2c_read_words") =>
      LET n == frame[t].num
          b == BusDataBytes
          dr == SelectSeq(wire, IsDataRead)
      IN /\ Len(b) = 2 * n
         /\ Len(dr) = 2 * n
         /\ \A i \in 1..(2 * n) : dr[i].data = <<b[i]>>
         /\ ret[t].kind = "value"
         /\ DOMAIN ret[t].val = 1..n
         /\ \A k \in 0..(n - 1) : ret[t].val[k + 1] = b[2 * k + 1] + 256 * b[2 * k + 2]

\* sixteen words have been read and returned
C2_Witness ==
  /\ pc[1] = "done"
  /\ frame[1].fn = "i2c_read_words"
  /\ frame[1].num = 16
  /\ Len(ret[1].val) = 16
  /\ BusDataBytes[1] # BusDataBytes[2]


(***************************************************************************)
(* C3: a successful public read puts on the bus, in this order: START,     *)
(* the device address with the write flag, the register pointer byte, a    *)
(* second START with no STOP before it, the device address with the read   *)
(* flag, the N byte reads, STOP.  The STOP is issued once, by the last     *)
(* transport write of the call, and leaves the bus idle.                   *)
(***************************************************************************)
IsStopWrite(w) == w.op = "write" /\ w.by = "__ft_i2c_stop"

C3_TransactionOrder ==
  \A t \in Single :
    (pc[t] = "done" /\ frame[t].fn \in PublicFns) =>
      LET n == NumBytes(frame[t])
          ws == SelectSeq(wire, IsWrite)
          by == [i \in 1..Len(ws) |-> ws[i].by]
          wbase == 2 * (frame[t].bus_addr \div 2)
      IN /\ BusKinds = <<"S", "W", "A", "W", "A", "S", "W", "A">>
                       \o Rep(<<"R", "M">>, n) \o <<"P">>
         /\ hw.bus[2].b = wbase
         /\ hw.bus[4].b = frame[t].reg_addr
         /\ hw.bus[7].b = wbase + 1
         /\ by = <<"__ft_i2c_start", "__ft_i2c_write_get_ack", "__ft_i2c_write_get_ack",
                   "__ft_i2c_start", "__ft_i2c_write_get_ack">>
                 \o Rep(<<"__ft_i2c_read_give_ack">>, n) \o <<"__ft_i2c_stop">>
         /\ Len(SelectSeq(wire, IsStopWrite)) = 1
         /\ IsStopWrite(wire[Len(wire)])
         /\ SclLevel(hw.val, hw.dir) = 1
         /\ SdaLevel(hw.val, hw.dir) = 1
         /\ hw.st = "idle"

\* a block read of several bytes has returned
C3_Witness ==
  /\ pc[1] = "done"
  /\ frame[1].fn = "sbs_block_read"
  /\ frame[1].num >= 2
  /\ hw.bus[Len(hw.bus)].e = "P"

(***************************************************************************)
(* C4: an N-byte addressed read, N >= 1, clocks out the one-bit handshake  *)
(* with data 0x80 (NACK) exactly once, after the N-th byte, and with data  *)
(* 0x00 (ACK) after each of the N-1 bytes before it; nothing follows the   *)
(* NACK.  Each handshake comes right after the clock-in of its byte.       *)
(***************************************************************************)
IsHandshake(c) == c.op = "out" /\ c.a = 0

C4_NackOnLastByteOnly ==
  \A t \in Single :
    (frame[t].fn \in PublicFns /\ NumBytes(frame[t]) >= 1) =>
      LET n == NumBytes(frame[t])
          hs == SelectSeq(hw.cmds, IsHandshake)
      IN /\ Len(hs) <= n
         /\ \A i \in 1..Len(hs) : hs[i].b = (IF i = n THEN 128 ELSE 0)
         /\ pc[t] \in {"rd_stop", "done"} => Len(hs) = n
         /\ \A j \in 1..Len(hw.cmds) :
              IsHandshake(hw.cmds[j]) =>
                /\ j > 2
                /\ hw.cmds[j - 2] = [op |-> "in", a |-> 7, b |-> 0]

\* a read of three bytes or more has sent its NACK
C4_Witness ==
  /\ pc[1] = "rd_stop"
  /\ NumBytes(frame[1]) >= 3
  /\ LET hs == SelectSeq(hw.cmds, IsHandshake)
     IN hs[Len(hs)].b = 128 /\ hs[1].b = 0

(***************************************************************************)
(* C5: a successful sbs_block_read of num_bytes >= 1 returns num_bytes     *)
(* values, the i-th being the i-th byte clocked in from the bus.           *)
(***************************************************************************)
C5_BlockInWireOrder ==
  \A t \in Single :
    (pc[t] = "done" /\ frame[t].fn = "sbs_block_read" /\ frame[t].num >= 1) =>
      /\ ret[t].kind = "value"
      /\ Len(ret[t].val) = frame[t].num
      /\ Len(BusDataBytes) = frame[t].num
      /\ \A i \in 1..frame[t].num : ret[t].val[i] = BusDataBytes[i]

\* a block read of six bytes has returned
C5_Witness ==
  /\ pc[1] = "done"
  /\ frame[1].fn = "sbs_block_read"
  /\ frame[1].num = 6
  /\ Len(ret[1].val) = 6
  /\ ret[1].val[1] # ret[1].val[2]


(***************************************************************************)
(* C6: for every response byte 0..255 read back by __ft_i2c_write_get_ack, *)
(* the call raises IOError exactly when bit 0 of the byte is 1; with bit 0 *)
(* clear it returns normally whatever the other seven bits are, and the    *)
(* byte enters no read result.                                             *)
(***************************************************************************)
C6_NackIffBit0 ==
  \A t \in Single :
    (frame[t].fn = "__ft_i2c_dev_addr" /\ pc[t] \in {"done", "raised"}) =>
      LET resp == wire[Len(wire)].data[1]
      IN /\ Len(wire) = 2
         /\ pc[t] = "raised" <=> resp % 2 = 1
         /\ ret[t].kind = (IF resp % 2 = 1 THEN "IOError" ELSE "none")
         /\ ret[t].val = <<>>
         /\ out_data[t] = <<>>

\* the response 0xFE, seven bits set and bit 0 clear, was taken for an ACK
C6_Witness ==
  /\ pc[1] = "done"
  /\ frame[1].fn = "__ft_i2c_dev_addr"
  /\ wire[Len(wire)].data = <<254>>

(***************************************************************************)
(* C7: for every device address a in 0..255 and read flag r, the byte      *)
(* __ft_i2c_dev_addr clocks out is (a & 0xFE) | (1 if r else 0): the low   *)
(* bit of a is ignored, the write form is even and the read form is the    *)
(* write form plus one.                                                    *)
(***************************************************************************)
C7_AddressFraming ==
  \A t \in Single :
    (frame[t].fn = "__ft_i2c_dev_addr" /\ Len(wire) >= 1) =>
      LET a == frame[t].bus_addr
          flag == IF frame[t].read THEN 1 ELSE 0
          sent == wire[1].data[6]
      IN /\ wire[1].data[4] = 19 /\ wire[1].data[5] = 7
         /\ sent = (a - (a % 2)) + flag
         /\ sent % 2 = flag
         /\ sent \div 2 = a \div 2
         /\ hw.bus[1] = [e |-> "W", b |-> sent]

\* the odd address 0xFF was sent as 0xFE for a write
C7_Witness ==
  /\ pc[1] = "prim_r"
  /\ frame[1].bus_addr = 255
  /\ ~frame[1].read
  /\ hw.bus[1] = [e |-> "W", b |-> 254]

(***************************************************************************)
(* C8: as (clock, data) levels, every START stream is (high,high)          *)
(* repeated, (high,low) repeated, (low,low) once, all with clock and data  *)
(* driven as outputs; every STOP stream is (low,low) repeated, (high,low)  *)
(* repeated, (high,high) repeated, then one command releasing both lines   *)
(* to input.  Each repeated phase has at least 10 commands, and neither    *)
(* stream holds a clock-in or clock-out command.                           *)
(***************************************************************************)
OnlyPinCmds(s) ==
  /\ Len(s) % 3 = 0
  /\ \A i \in 1..(Len(s) \div 3) : s[3 * i - 2] = 128

\* <<clock level, data level, clock is output, data is output>> of the
\* i-th pin-state command of stream s
PinPhase(s, i) ==
  <<s[3 * i - 1] % 2, (s[3 * i - 1] \div 2) % 2,
    s[3 * i] % 2, (s[3 * i] \div 2) % 2>>

\* the phases of s with their lengths, from command i on
RECURSIVE PhaseRuns(_, _)
PhaseRuns(s, i) ==
  IF i > Len(s) \div 3 THEN <<>>
  ELSE LET rest == PhaseRuns(s, i + 1)
       IN IF rest # <<>> /\ rest[1].p = PinPhase(s, i)
          THEN <<[p |-> rest[1].p, n |-> rest[1].n + 1]>> \o Tail(rest)
          ELSE <<[p |-> PinPhase(s, i), n |-> 1]>> \o rest

IsStartShape(s) ==
  LET r == PhaseRuns(s, 1)
  IN /\ OnlyPinCmds(s)
     /\ Len(r) = 3
     /\ r[1].p = <<1, 1, 1, 1>> /\ r[1].n >= 10
     /\ r[2].p = <<1, 0, 1, 1>> /\ r[2].n >= 10
     /\ r[3].p = <<0, 0, 1, 1>> /\ r[3].n = 1

IsStopShape(s) ==
  LET r == PhaseRuns(s, 1)
  IN /\ OnlyPinCmds(s)
     /\ Len(r) = 4
     /\ r[1].p = <<0, 0, 1, 1>> /\ r[1].n >= 10
     /\ r[2].p = <<1, 0, 1, 1>> /\ r[2].n >= 10
     /\ r[3].p = <<1, 1, 1, 1>> /\ r[3].n >= 10
     /\ r[4].p[3] = 0 /\ r[4].p[4] = 0 /\ r[4].n = 1

C8_StartStopShape ==
  \A i \in 1..Len(wire) :
    /\ (wire[i].op = "write" /\ wire[i].by = "__ft_i2c_start") => IsStartShape(wire[i].data)
    /\ (wire[i].op = "write" /\ wire[i].by = "__ft_i2c_stop") => IsStopShape(wire[i].data)

\* a call has sent its two STARTs and its STOP
C8_Witness ==
  /\ pc[1] = "done"
  /\ wire[1].by = "__ft_i2c_start"
  /\ Len(wire[1].data) = 93
  /\ wire[Len(wire)].by = "__ft_i2c_stop"
  /\ Len(wire[Len(wire)].data) = 93

(***************************************************************************)
(* C9: on the same device contents and with the same arguments, the FTDI   *)
(* engine and the smbus2 backend return the same values from               *)
(* i2c_read_words, sbs_block_read and sbs_word_read, and address the same  *)
(* 7-bit device: the FTDI write address is twice the smbus2 address.       *)
(***************************************************************************)
C9_BackendsAgree ==
  \A t \in Single :
    sm_ret[t].kind # "none" =>
      /\ pc[t] = "done"
      /\ sm_ret[t].kind = ret[t].kind
      /\ Len(sm_ret[t].val) = Len(ret[t].val)
      /\ \A i \in 1..Len(ret[t].val) : sm_ret[t].val[i] = ret[t].val[i]
      /\ hw.sel = frame[t].bus_addr \div 2
      /\ hw.bus[2].b = 2 * (frame[t].bus_addr \div 2)

\* both backends have answered a two-word read at the odd address 0x17
C9_Witness ==
  /\ sm_ret[1].kind = "value"
  /\ frame[1].fn = "i2c_read_words"
  /\ frame[1].bus_addr = 23
  /\ frame[1].reg_addr = 176
  /\ frame[1].num = 2
  /\ ret[1].val[1] # ret[1].val[2]

(***************************************************************************)
(* C10: when a transport read of a logical read hands back fewer bytes     *)
(* than asked for, the call raises (IndexError) at that read: it makes no  *)
(* further transport operation and returns no value.                       *)
(***************************************************************************)
C10_ShortReadFaults ==
  \A t \in Single :
    \A i \in 1..Len(wire) :
      (wire[i].op = "read" /\ Len(wire[i].data) < 1) =>
        /\ i = Len(wire)
        /\ pc[t] = "raised"
        /\ ret[t] = [kind |-> "IndexError", val |-> <<>>]

\* a data-phase read came back empty after some bytes had been collected
C10_Witness ==
  /\ pc[1] = "raised"
  /\ ret[1].kind = "IndexError"
  /\ IsDataRead(wire[Len(wire)])
  /\ wire[Len(wire)].data = <<>>
  /\ Len(out_data[1]) >= 1


(***************************************************************************)
(* C16: whenever the engine issues a clocked data-in command (the 1-bit    *)
(* ack read or the 8-bit byte read), the most recent pin-state command     *)
(* before it configured the data line as input and the clock line as       *)
(* output.                                                                 *)
(***************************************************************************)
\* scan of the command log from index i; lastdir is the direction byte of the
\* last pin-state command seen (-1 when there was none)
RECURSIVE SampledAsInput(_, _, _)
SampledAsInput(cmds, i, lastdir) ==
  IF i > Len(cmds) THEN TRUE
  ELSE IF cmds[i].op = "pins" THEN SampledAsInput(cmds, i + 1, cmds[i].b)
  ELSE IF cmds[i].op = "in"
       THEN /\ lastdir >= 0
            /\ lastdir % 2 = 1
            /\ (lastdir \div 2) % 2 = 0
            /\ SampledAsInput(cmds, i + 1, lastdir)
  ELSE SampledAsInput(cmds, i + 1, lastdir)

\* the command log grows only in a transport write, so it is examined in the
\* states that follow one
C16_DataInputWhenSampling ==
  \A t \in Single :
    pc[t] \in {"wr_dev_r", "wr_reg_r", "rd_dev_r", "rd_byte_r", "prim_r"} =>
      SampledAsInput(hw.cmds, 1, -1)

\* an ack bit and a data byte have both been clocked in
C16_Witness ==
  /\ pc[1] = "rd_byte_r"
  /\ \E j \in 1..Len(hw.cmds) : hw.cmds[j] = [op |-> "in", a |-> 0, b |-> 0]
  /\ hw.cmds[Len(hw.cmds) - 4] = [op |-> "in", a |-> 7, b |-> 0]

(***************************************************************************)
(* C17, as stated: in __ft_i2c_read_give_ack, for the ACK and for the NACK *)
(* case, the pin-state command right before the 1-bit clock-out switches   *)
(* the data line to output, and the pin-state command after it switches    *)
(* the data line back to input, before the flush.                          *)
(***************************************************************************)
DataIsOut(c) == c.op = "pins" /\ (c.b \div 2) % 2 = 1
DataIsIn(c) == c.op = "pins" /\ (c.b \div 2) % 2 = 0

HandshakeFramed(j, outForNack) ==
  /\ j > 1
  /\ j + 2 <= Len(hw.cmds)
  /\ IF hw.cmds[j].b = 128 /\ ~outForNack
     THEN DataIsIn(hw.cmds[j - 1])
     ELSE DataIsOut(hw.cmds[j - 1])
  /\ DataIsIn(hw.cmds[j + 1])
  /\ hw.cmds[j + 2].op = "flush"

C17_Original ==
  \A t \in Single :
    pc[t] \in {"rd_byte_r", "rd_stop", "done"} =>
      \A j \in 1..Len(hw.cmds) : IsHandshake(hw.cmds[j]) => HandshakeFramed(j, TRUE)

(***************************************************************************)
(* C17, amended: for the ACK the pin-state command right before the 1-bit  *)
(* clock-out switches the data line to output; for the NACK it leaves the  *)
(* data line as input (the line is released and pulled high); in both      *)
(* cases the pin-state command after the clock-out sets the data line as   *)
(* input, before the flush.                                                *)
(***************************************************************************)
C17_HandshakeDirection ==
  \A t \in Single :
    pc[t] \in {"rd_byte_r", "rd_stop", "done"} =>
      \A j \in 1..Len(hw.cmds) : IsHandshake(hw.cmds[j]) => HandshakeFramed(j, FALSE)

\* a read has given an ACK and then its NACK
C17_Witness ==
  /\ pc[1] = "rd_stop"
  /\ LET hs == SelectSeq(hw.cmds, IsHandshake)
     IN Len(hs) >= 2 /\ hs[1].b = 0 /\ hs[Len(hs)].b = 128


(***************************************************************************)
(* C14: the clock divisor __init__ programs is                             *)
(* 6000000 / (40000 * 2) - 1 = 74, and it is sent after the set-clock      *)
(* command byte as the two bytes [74, 0], low byte first.                  *)
(***************************************************************************)
IsSetClockWrite(w) == w.op = "write" /\ w.data # <<>> /\ w.data[1] = CMD_SET_CLOCK

C14_ClockDivisor ==
  \A t \in Single :
    /\ \A i \in 1..Len(wire) :
         IsSetClockWrite(wire[i]) => wire[i].data = <<CMD_SET_CLOCK, 74, 0>>
    /\ (pc[t] = "ctor" /\ CtorStep(t) \in {"flush", "pins"}) =>
         /\ Len(SelectSeq(wire, IsSetClockWrite)) = 1
         /\ hw.clkdiv = 74

\* the set-clock write has just been made
C14_Witness ==
  /\ pc[1] = "ctor"
  /\ CtorStep(1) = "flush"
  /\ IsSetClockWrite(wire[Len(wire)])


(***************************************************************************)
(* C18: constructing ftd2xx_i2c performs, once each and in this order:     *)
(* open of the device, bit mode reset, MPSSE enabled, settle delay, clock  *)
(* divide-by-5 command, clock divisor, discard of the receive queue, and   *)
(* last the idle pin state (clock and data outputs, both high).  No        *)
(* logical read starts before the last step, and a step that fails ends    *)
(* the construction with no instance to read from.                         *)
(***************************************************************************)
\* what a driver call is for the order: its name and arguments (for a read
\* the count it asks for)
CallKey(w) == IF w.op = "read" THEN <<w.op, <<w.n>>>> ELSE <<w.op, w.data>>

InitStepsClaimed ==
  << <<"open", <<0>>>>,
     <<"setBitMode", <<0, 0>>>>,
     <<"setBitMode", <<0, 2>>>>,
     <<"sleep", <<>>>>,
     <<"write", <<CMD_CLKDIV_DISABLE, 1>>>>,
     <<"write", <<CMD_SET_CLOCK, 74, 0>>>>,
     <<"read", <<2>>>>,
     <<"write", <<CMD_SET_DATABITS_LOW, 19, 19>>>> >>

\* setLatencyTimer(8) runs between the open and the bit mode reset; the
\* statement is about the other steps
IsClaimedStep(w) == w.op # "setLatencyTimer"

\* the driver calls made so far, without the latency timer one
InitLog ==
  LET l == SelectSeq(wire, IsClaimedStep) IN [i \in 1..Len(l) |-> CallKey(l[i])]

IsPrefix(a, b) == Len(a) <= Len(b) /\ a = SubSeq(b, 1, Len(a))

C18_InitState ==
  \A t \in Single :
    /\ pc[t] \in {"ctor", "no_instance"} =>
         /\ IsPrefix(InitLog, InitStepsClaimed)
         /\ InitLog # InitStepsClaimed
         /\ ncalls = 0
    /\ (pc[t] = "idle" /\ ncalls = 0) =>
         /\ InitLog = InitStepsClaimed
         /\ hw.opens = 1
         /\ hw.val % 4 = 3
         /\ hw.dir % 4 = 3

C18_InitStep ==
  \A t \in Single :
    /\ (ncalls' # ncalls) =>
         /\ pc[t] \in {"idle", "done", "raised"}
         /\ ncalls = 0 => (pc[t] = "idle" /\ InitLog = InitStepsClaimed)
    /\ pc[t] = "no_instance" => UNCHANGED vars

C18_InitOrder == [](C18_InitState) /\ [][C18_InitStep]_vars

\* the instance has been constructed and a logical read is running on it
C18_Witness ==
  /\ ncalls = 1
  /\ pc[1] = "rd_byte_r"
  /\ hw.opens = 1

(***************************************************************************)
(* C20: once the instance is constructed, no step of a logical read,       *)
(* whether the read succeeds or faults, changes the latency timer, the bit *)
(* mode or the clock divisor of the transport, and none opens the device   *)
(* again.                                                                  *)
(***************************************************************************)
Settings(h) == <<h.opens, h.latency, h.bitmode, h.clkcmd, h.clkdiv>>

C20_SettingsStep ==
  \A t \in Single : pc[t] # "ctor" => Settings(hw') = Settings(hw)

C20_SettingsFixed == [][C20_SettingsStep]_vars

\* a read on the constructed instance has sent its pointer and its read
\* address and then faulted, the settings being those of the construction
C20_Witness ==
  /\ ncalls = 1
  /\ pc[1] = "raised"
  /\ Len(wire) >= 8
  /\ Settings(hw) = <<1, 8, 2, CMD_CLKDIV_DISABLE, 74>>


(***************************************************************************)
(* C15, as stated: every clocked data-in command is followed in the same   *)
(* command stream by send-immediate before any transport read, and over    *)
(* any sequence of engine operations, initialization included, each        *)
(* transport read asks for exactly the number of response bytes that the   *)
(* data-in commands issued since the previous read produce.                *)
(***************************************************************************)
\* the number of clocked data-in commands in the stream s from byte i on
RECURSIVE DataIns(_, _)
DataIns(s, i) ==
  IF i > Len(s) THEN 0
  ELSE IF s[i] \in {CMD_SET_DATABITS_LOW, CMD_DATAOUT_NEG_EDGE, CMD_SET_CLOCK}
       THEN DataIns(s, i + 3)
  ELSE IF s[i] = CMD_DATAIN_POS_EDGE THEN 1 + DataIns(s, i + 2)
  ELSE DataIns(s, i + 1)

\* every read of the log from entry i on asks for as many bytes as the data-in
\* commands written since the read before it; produced counts those seen so
\* far, and the reads of __init__ are held to it only when withInit
RECURSIVE ReadsMatch(_, _, _)
ReadsMatch(i, produced, withInit) ==
  IF i > Len(wire) THEN TRUE
  ELSE IF wire[i].op = "write"
       THEN ReadsMatch(i + 1, produced + DataIns(wire[i].data, 1), withInit)
  ELSE IF wire[i].op = "read"
       THEN /\ (wire[i].by # "__init__" \/ withInit) => wire[i].n = produced
            /\ ReadsMatch(i + 1, 0, withInit)
  ELSE ReadsMatch(i + 1, produced, withInit)

C15_Original ==
  /\ hw.pend = <<>>
  /\ ReadsMatch(1, 0, TRUE)

(***************************************************************************)
(* C15, amended: every clocked data-in command is followed in the same     *)
(* command stream by send-immediate before any transport read, and over    *)
(* any sequence of logical reads each transport read asks for exactly the  *)
(* number of response bytes that the data-in commands issued since the     *)
(* previous read produce (one); the two-byte read of __init__ follows no   *)
(* data-in command.                                                        *)
(***************************************************************************)
IsInitRead(w) == w.op = "read" /\ w.by = "__init__"

C15_ReadsMatchResponses ==
  /\ hw.pend = <<>>
  /\ ReadsMatch(1, 0, FALSE)
  /\ \A i \in 1..Len(wire) :
       IsInitRead(wire[i]) =>
         /\ wire[i].n = 2
         /\ \A j \in 1..(i - 1) : wire[j].op = "write" => DataIns(wire[j].data, 1) = 0

\* a logical read on a constructed instance has read ack bits and data bytes
C15_Witness ==
  /\ ncalls = 1
  /\ pc[1] = "rd_stop"
  /\ Len(wire) >= 10
  /\ wire[Len(wire)].op = "read"
  /\ wire[Len(wire)].n = 1

(***************************************************************************)
(* C19, as stated: when initialization completes no stale byte is left in  *)
(* the receive queue, however many bytes it held when the device was       *)
(* opened, so the first response byte the first logical read consumes is   *)
(* the response to its own clock-in.                                       *)
(***************************************************************************)
C19_Original ==
  \A t \in Single :
    /\ (pc[t] = "idle" /\ ncalls = 0) => hw.rxq = <<>>
    /\ (ncalls = 1 /\ pc[t] = "wr_dev_r" /\ frame[t].fn # "none"
        /\ wire[Len(wire)].op = "write" /\ Len(wire) = 2) => Len(hw.rxq) = 1


(***************************************************************************)
(* C11: two consecutive sbs_word_read calls with the same arguments, to    *)
(* which the transport hands back the same raw response bytes, transmit    *)
(* the same command streams and return the same decoded value: nothing the *)
(* first call leaves behind changes what the second sends or returns.      *)
(***************************************************************************)
IsRead(w) == w.op = "read"

\* the command streams of a call and the raw bytes handed back to it
StreamsOf(log) ==
  LET ws == SelectSeq(log, IsWrite) IN [i \in 1..Len(ws) |-> ws[i].data]
ResponsesOf(log) ==
  LET rs == SelectSeq(log, IsRead) IN [i \in 1..Len(rs) |-> rs[i].data]

\* the transport answers the k-th read of both calls with the same bytes, for
\* every k both calls get to
SameResponses(a, b) ==
  \A k \in 1..Len(a) : k <= Len(b) => a[k] = b[k]

C11_WordReadRepeatable ==
  \A t \in Single :
    (/\ pc[t] \in {"done", "raised"}
     /\ prev.frame.fn = "sbs_word_read"
     /\ frame[t] = prev.frame
     /\ SameResponses(ResponsesOf(wire), ResponsesOf(prev.wire))) =>
       /\ StreamsOf(wire) = StreamsOf(prev.wire)
       /\ ret[t] = prev.ret

\* the second of two word reads has returned, the transport having answered
\* both with the same bytes
C11_Witness ==
  /\ pc[1] = "done"
  /\ ncalls = 2
  /\ prev.frame = frame[1]
  /\ prev.ret.kind = "word"
  /\ ret[1].kind = "word"
  /\ ResponsesOf(wire) = ResponsesOf(prev.wire)
  /\ Len(ResponsesOf(wire)) = 5


(***************************************************************************)
(* C12: in start_logging an exception other than KeyboardInterrupt is      *)
(* reported and ends the loop if and only if quit_on_error is true; when   *)
(* it is false the loop goes on to a further collection attempt, after any *)
(* number of consecutive faults.  KeyboardInterrupt always ends the loop.  *)
(***************************************************************************)
C12_State ==
  lg.pc = "exit" =>
    \/ lg.end = "KeyboardInterrupt"
    \/ lg.end = "Exception" /\ lg.quit_on_error /\ lg.faults = 1

C12_Step ==
  /\ lg'.faults # lg.faults =>
       /\ lg'.printed = Append(lg.printed, "Exception")
       /\ (lg'.pc = "exit") <=> lg.quit_on_error
       /\ ~lg.quit_on_error => lg'.pc = "top"
  /\ (lg'.end = "KeyboardInterrupt" /\ lg.end = "none") => lg'.pc = "exit"
  /\ (lg.pc = "top" /\ lg'.pc # "top") =>
       \/ lg'.pc = "page" /\ lg'.attempts = lg.attempts + 1
       \/ lg'.end = "KeyboardInterrupt"
  /\ lg.pc = "exit" => lg' = lg

C12_FaultHandling == [](C12_State) /\ [][C12_Step]_vars

\* two faults in a row were swallowed and a further attempt is under way
C12_Witness ==
  /\ ~lg.quit_on_error
  /\ lg.consec = 2
  /\ lg.attempts = 3
  /\ lg.pc = "sbs"

(***************************************************************************)
(* C13: for both values of keep_rsvd every data row has as many fields as  *)
(* the header get_header_fields gives, and field k of a row is the value   *)
(* read from the register header field k names: the timestamp first, the   *)
(* register pages in REGISTER_PAGES order (reserved registers present iff  *)
(* keep_rsvd), then the SBS registers in SBS_REGISTERS order.              *)
(***************************************************************************)
\* the registers of the tables by address: <<"r", device, address, named>>
\* for a page word, <<"s", device, address, block size>> for an SBS register
PageRegs ==
  Join([p \in 1..Len(REGISTER_PAGES) |->
          [idx \in 1..16 |-> [dev |-> REGISTER_PAGES[p].dev_addr,
                              addr |-> REGISTER_PAGES[p].base_addr + idx - 1,
                              named |-> REGISTER_PAGES[p].reg_names[idx] = 1]]])

IsListed(x) == x.named
AllListed(x) == TRUE

\* what the device holds in the register a header field names
ValueNamed(h, k) ==
  IF h.name \in {"reg", "RSVD"}
  THEN LET x == CHOOSE x \in {PageRegs[n] : n \in 1..Len(PageRegs)} : x.addr = h.addr
       IN Hex4(RegWord(hw.mem, x.dev \div 2, h.addr % 256))
  ELSE LET sbs == CHOOSE x \in {SBS_REGISTERS[n] : n \in 1..Len(SBS_REGISTERS)} :
                    x.base_addr = h.addr
       IN IF sbs.block_size > 0
          THEN Join([b \in 1..sbs.block_size |->
                       Hex2(DevByte(hw.mem, sbs.dev_addr \div 2, h.addr % 256, b - 1))])
          ELSE Hex4(RegWord(hw.mem, sbs.dev_addr \div 2, h.addr % 256))

\* the addresses the header must name, in order
HeaderAddrs(keep_rsvd) ==
  LET regs == IF keep_rsvd THEN SelectSeq(PageRegs, AllListed)
              ELSE SelectSeq(PageRegs, IsListed)
  IN <<0>> \o [n \in 1..Len(regs) |-> regs[n].addr]
     \o [n \in 1..Len(SBS_REGISTERS) |-> SBS_REGISTERS[n].base_addr]

C13_RowsMatchHeader ==
  lg.pc \in {"sleep"} =>
    /\ lg.header[1].name = "Timestamp"
    /\ [k \in 1..Len(lg.header) |-> lg.header[k].addr] = HeaderAddrs(lg.keep_rsvd)
    /\ (\E k \in 1..Len(lg.header) : lg.header[k].name = "RSVD") <=> lg.keep_rsvd
    /\ LET row == lg.rows[Len(lg.rows)]
       IN /\ Len(row) = Len(lg.header)
          /\ row[1] = Dec(lg.now_time)
          /\ \A k \in 2..Len(row) : row[k] = ValueNamed(lg.header[k], k)

\* the second row has been written, the reserved registers left out
C13_Witness ==
  /\ lg.pc = "sleep"
  /\ ~lg.keep_rsvd
  /\ lg.record_ct = 2
  /\ Len(lg.rows) = 2


(***************************************************************************)
(* C24, as stated: in start_logging a data row is written only after every *)
(* register-page read and every SBS read of the iteration has succeeded,   *)
(* an iteration in which a read faults writes no row and no partial row,   *)
(* and at every point of the loop record_ct equals the number of data rows *)
(* written so far.                                                         *)
(***************************************************************************)
InLoop == lg.pc \in {"top", "page", "sbs", "write", "count", "sleep", "exit"}

\* rows change only by the write of a complete row; a fault writes nothing
C24_RowStep ==
  /\ lg'.rows # lg.rows =>
       /\ lg.pc = "write"
       /\ lg'.faults = lg.faults
       /\ lg'.rows = Append(lg.rows, lg.row_data)
       /\ Len(lg.row_data) = Len(lg.header)
  /\ lg'.faults # lg.faults => lg'.rows = lg.rows

C24_Original ==
  /\ [](InLoop => lg.record_ct = Len(lg.rows))
  /\ [][C24_RowStep]_vars

(***************************************************************************)
(* C24, amended: a data row is written only after every register-page read *)
(* and every SBS read of the iteration has succeeded, an iteration in      *)
(* which a read faults writes no row and no partial row, and record_ct     *)
(* equals the number of data rows written so far at every point of the     *)
(* loop except between the row write and the increment that follows it,    *)
(* where it is one less; a KeyboardInterrupt arriving there ends the loop   *)
(* with record_ct one short of the rows written.                           *)
(***************************************************************************)
\* the row is written and record_ct not yet incremented
CountPending ==
  \/ lg.pc = "count"
  \/ lg.pc = "exit" /\ lg.end = "KeyboardInterrupt" /\ lg.record_ct # Len(lg.rows)

C24_CountState ==
  InLoop =>
    /\ ~CountPending => lg.record_ct = Len(lg.rows)
    /\ CountPending => lg.record_ct = Len(lg.rows) - 1
    /\ \A r \in 1..Len(lg.rows) : Len(lg.rows[r]) = Len(lg.header)

C24_RowsAfterReads == [](C24_CountState) /\ [][C24_RowStep]_vars

\* a row was written, then an iteration faulted and was swallowed, and the
\* next one is collecting
C24_Witness ==
  /\ lg.pc = "sbs"
  /\ lg.record_ct = 1
  /\ Len(lg.rows) = 1
  /\ lg.consec = 1
  /\ lg.attempts = 3


(***************************************************************************)
(* C21, as stated: in start_logging, between the start of any two          *)
(* consecutive collection attempts the loop passes through its interval    *)
(* wait, also when the earlier attempt ended in a fault that was swallowed *)
(* because quit_on_error is false.                                         *)
(***************************************************************************)
C21_Original ==
  (InLoop /\ lg.attempts >= 2) => lg.after_wait

\* the part that holds: an attempt that follows a written row started after
\* the interval wait of that row's iteration
C21_WaitAfterRow ==
  (InLoop /\ lg.attempts >= 2 /\ lg.consec = 0 /\ lg.pc \in {"page", "sbs", "write"}) =>
    (lg.after_wait /\ lg.now_time >= INTERVAL + 1)


(***************************************************************************)
(* C23: over the whole sequence of pin-state commands the engine sends     *)
(* after initialization, across logical reads that succeed or are aborted  *)
(* by a NACK and followed by a new call, the commanded data level changes  *)
(* between two consecutive pin-state commands that both command the clock  *)
(* high only at the falling data edge inside START and at the rising data  *)
(* edge inside STOP; every other change of the commanded data level or     *)
(* data direction comes in a command that commands the clock low or        *)
(* changes the clock (its commanded level or its direction).               *)
(***************************************************************************)
IsPins(c) == c.op = "pins"
IsStartEv(e) == e.e = "S"

\* <<clock level, data level, clock is output, data is output>> commanded by
\* the value byte v and the direction byte d
Commanded(v, d) == <<v % 2, (v \div 2) % 2, d % 2, (d \div 2) % 2>>

\* the step from the commanded state p to the next commanded state q, made
\* by a pin-state command of the routine `by`
PinStepAllowed(p, q, by) ==
  /\ (p[1] = 1 /\ q[1] = 1 /\ p[2] # q[2]) =>
       \/ by = "__ft_i2c_start" /\ p[2] = 1 /\ q[2] = 0
       \/ by = "__ft_i2c_stop" /\ p[2] = 0 /\ q[2] = 1
  /\ ((p[2] # q[2] \/ p[4] # q[4]) /\ ~(p[1] = 1 /\ q[1] = 1 /\ p[2] # q[2])) =>
       \/ q[1] = 0
       \/ p[1] # q[1]
       \/ p[3] # q[3]

\* the pin-state commands of the command log from position i on, each taken
\* against the commanded state p left by the one before it
RECURSIVE PinStepsAllowed(_, _, _, _)
PinStepsAllowed(cmds, i, p, by) ==
  IF i > Len(cmds) THEN TRUE
  ELSE IF cmds[i].op = "pins"
       THEN /\ PinStepAllowed(p, Commanded(cmds[i].a, cmds[i].b), by)
            /\ PinStepsAllowed(cmds, i + 1, Commanded(cmds[i].a, cmds[i].b), by)
       ELSE PinStepsAllowed(cmds, i + 1, p, by)

\* a transport write: the pin-state commands it adds to the command log,
\* taken one after the other from the state the pins were last commanded to
C23_Step ==
  (Len(wire') = Len(wire) + 1 /\ wire'[Len(wire')].op = "write") =>
    PinStepsAllowed(hw'.cmds, Len(hw.cmds) + 1, Commanded(hw.val, hw.dir),
                    wire'[Len(wire')].by)

C23_DataChangesUnderClock == [][C23_Step]_vars

\* a call aborted by a NACK is followed by a call that has sent its START,
\* its repeated START and its STOP
C23_Witness ==
  /\ ncalls = 2
  /\ pc[1] = "done"
  /\ BusKinds[1] = "S"
  /\ BusKinds[Len(BusKinds)] = "P"
  /\ Len(SelectSeq(hw.bus, IsStartEv)) = 2


(***************************************************************************)
(* Two callers on one ftd2xx_i2c instance.  The engine takes no lock in    *)
(* any of its methods, so each transport write and each transport read of  *)
(* one caller is a step the other caller's steps can come between.  The    *)
(* callers either use no lock, or take one lock around each whole public   *)
(* read.  The transport log and the command log are kept over all calls.   *)
(***************************************************************************)
\* public reads entered in all: as many as there are callers, by both callers
\* or by one of them twice
ConcCalls == Cardinality(Callers)
\* changes of the running caller between two transport operations
MaxSwitches == 1

\* the answers of the chip to a 1-bit clock-in, the device contents and the
\* register the callers read in this specification
ConcAcks == {0, 1}
ConcMems == {4660}
ConcBus == {108}
ConcRegs == {176}
\* the word counts and the block sizes the callers ask for
ConcWords == {1}
ConcBytes == {0, 1}

ConcInit ==
  /\ pc = [t \in Callers |-> "idle"]
  /\ frame = [t \in Callers |-> NoFrame]
  /\ out_data = [t \in Callers |-> <<>>]
  /\ ret = [t \in Callers |-> NoRet]
  /\ sm_ret = [t \in Callers |-> NoRet]
  /\ \E m \in ConcMems :
       hw = [val |-> 19, dir |-> 19, pend |-> <<>>, rxq |-> <<>>,
             st |-> "idle", sel |-> 0, ptr |-> 0, k |-> 0, mem |-> m,
             cmds |-> <<>>, bus |-> <<>>,
             opens |-> 1, latency |-> LATENCY_TIMER, bitmode |-> MODE_MPSSE,
             clkcmd |-> CMD_CLKDIV_DISABLE,
             clkdiv |-> ClockDivisor(MASTER_CLOCK, CLOCK_RATE)]
  /\ wire = <<>>
  /\ ncalls = 0
  /\ nshort = 0
  /\ prev = NoPrev
  /\ lg = NoLog
  /\ \E u \in BOOLEAN : mutex = [used |-> u, owner |-> 0]

\* the frame of a public read entered by caller t
ConcFrame(t) ==
  \E b \in ConcBus, r \in ConcRegs :
    \/ \E n \in ConcWords :
         frame' = [frame EXCEPT ![t] = [fn |-> "i2c_read_words", bus_addr |-> b,
                                        reg_addr |-> r, num |-> n, read |-> FALSE]]
    \/ \E n \in ConcBytes :
         frame' = [frame EXCEPT ![t] = [fn |-> "sbs_block_read", bus_addr |-> b,
                                        reg_addr |-> r, num |-> n, read |-> FALSE]]
    \/ frame' = [frame EXCEPT ![t] = [fn |-> "sbs_word_read", bus_addr |-> b,
                                      reg_addr |-> r, num |-> 1, read |-> FALSE]]

\* variant of conc_call: the public read entered without waiting for the lock
conc_call_nolock(t) ==
  /\ pc[t] \in {"idle", "done", "raised"}
  /\ ncalls < ConcCalls
  /\ mutex' = IF mutex.used THEN [mutex EXCEPT !.owner = t] ELSE mutex
  /\ ConcFrame(t)
  /\ pc' = [pc EXCEPT ![t] = "wr_start"]
  /\ out_data' = [out_data EXCEPT ![t] = <<>>]
  /\ ret' = [ret EXCEPT ![t] = NoRet]
  /\ sm_ret' = [sm_ret EXCEPT ![t] = NoRet]
  /\ ncalls' = ncalls + 1
  /\ UNCHANGED <<hw, wire, nshort, prev, lg>>

\* caller t enters one of the three public reads; callers that use the lock
\* take it first and wait while another caller holds it
conc_call(t) ==
  /\ pc[t] \in {"idle", "done", "raised"}
  /\ ncalls < ConcCalls
  /\ mutex.used => mutex.owner \in {0, t}
  /\ mutex' = IF mutex.used THEN [mutex EXCEPT !.owner = t] ELSE mutex
  /\ ConcFrame(t)
  /\ pc' = [pc EXCEPT ![t] = "wr_start"]
  /\ out_data' = [out_data EXCEPT ![t] = <<>>]
  /\ ret' = [ret EXCEPT ![t] = NoRet]
  /\ sm_ret' = [sm_ret EXCEPT ![t] = NoRet]
  /\ ncalls' = ncalls + 1
  /\ UNCHANGED <<hw, wire, nshort, prev, lg>>

\* the public read of caller t has returned or raised: the caller gives the
\* lock back
conc_release(t) ==
  /\ mutex.used
  /\ mutex.owner = t
  /\ pc[t] \in {"done", "raised"}
  /\ mutex' = [mutex EXCEPT !.owner = 0]
  /\ UNCHANGED <<pc, frame, out_data, ret, sm_ret, hw, wire, ncalls, nshort, prev, lg>>

RECURSIVE Switches(_, _)
Switches(w, i) ==
  IF i >= Len(w) THEN 0
  ELSE (IF w[i].t # w[i + 1].t THEN 1 ELSE 0) + Switches(w, i + 1)

\* caller t may do its next transport operation
CanRun(t) ==
  IF wire = <<>> THEN TRUE
  ELSE IF wire[Len(wire)].t = t THEN TRUE
  ELSE Switches(wire, 1) < MaxSwitches

ConcNext ==
  \E t \in Callers :
    \/ conc_call(t)
    \/ conc_release(t)
    \/ CanRun(t) /\ ft_i2c_start(t)
    \/ CanRun(t) /\ ft_i2c_write_get_ack_write(t, ConcAcks)
    \/ CanRun(t) /\ ft_i2c_write_get_ack_read(t, 1)
    \/ CanRun(t) /\ ft_i2c_read_give_ack_write(t)
    \/ CanRun(t) /\ ft_i2c_read_give_ack_read(t, 1)
    \/ CanRun(t) /\ ft_i2c_stop(t)

SpecConc == ConcInit /\ [][ConcNext]_vars

(***************************************************************************)
(* C22: the engine has no lock of its own.  Two callers running public     *)
(* reads on one instance without a lock can interleave their transport     *)
(* writes and reads so that the 1-byte read of one caller takes the        *)
(* response byte produced by the other caller's command, or the START or   *)
(* STOP of one caller lands inside the other caller's transaction.  When   *)
(* the callers hold one lock around each whole public read, no such state  *)
(* is reachable.                                                           *)
(***************************************************************************)
\* transport writes whose stream clocks a byte or a bit in and flushes it:
\* each leaves one response byte in the receive queue
IsProducing(x) ==
  x.op = "write" /\ x.by \in {"__ft_i2c_write_get_ack", "__ft_i2c_read_give_ack"}

\* some transport read handed its caller the response byte of a command that
\* another caller wrote (the receive queue is first in, first out)
CrossRead ==
  LET reads == SelectSeq(wire, IsRead)
      prods == SelectSeq(wire, IsProducing)
  IN \E i \in 1..Len(reads) :
       /\ reads[i].data # <<>>
       /\ i <= Len(prods)
       /\ reads[i].t # prods[i].t

\* the last transport write is a START or a STOP of one caller, sent while
\* another caller is between the START and the end of its own transaction
StartStopInside ==
  /\ wire # <<>>
  /\ wire[Len(wire)].op = "write"
  /\ wire[Len(wire)].by \in {"__ft_i2c_start", "__ft_i2c_stop"}
  /\ \E t \in Callers :
       /\ t # wire[Len(wire)].t
       /\ pc[t] \notin {"idle", "wr_start", "done", "raised"}

\* no method of the engine touches the lock
C22_EngineStep ==
  mutex' # mutex => wire' = wire /\ hw' = hw

C22_SerializedState ==
  mutex.used =>
    /\ ~CrossRead
    /\ ~StartStopInside
    /\ \A t \in Callers :
         pc[t] \notin {"idle", "done", "raised"} => mutex.owner = t

C22_MutexSerializes == [](C22_SerializedState) /\ [][C22_EngineStep]_vars

\* without a lock: a START of one caller has landed inside the other's
\* transaction and a read has taken the other caller's response byte
C22_Witness ==
  /\ ~mutex.used
  /\ CrossRead
  /\ \E j \in 2..Len(wire) :
       /\ wire[j].by = "__ft_i2c_start"
       /\ wire[j].t # wire[1].t
       /\ pc[wire[1].t] \notin {"idle", "wr_start", "done", "raised"}
       /\ ncalls = 2

====
